---- MODULE Spec2Model ----
(***************************************************************************)
(* Model of the mqttools MQTT 5.0 broker session engine                    *)
(* (src/mqttools/broker.py) and of the parts of the codec                  *)
(* (src/mqttools/common.py) that decide what the broker writes.            *)
(*                                                                         *)
(* One action is one step of a connection handler task: it reads one       *)
(* packet (or the end of the stream) and runs the handler to its next      *)
(* await.  The handlers contain no await, so each step is atomic.          *)
(***************************************************************************)
EXTENDS Integers, Sequences, FiniteSets, TLC

(***************************************************************************)
(* Bounds of the model.                                                    *)
(***************************************************************************)
MaxConns == 2
MaxSessions == 2
MaxFilters == 2
MaxBuffered == 2
MaxIdle == 2

(***************************************************************************)
(* Program constants.                                                      *)
(***************************************************************************)
MAXIMUM_PACKET_SIZE == 268435455

CONNECT_SUCCESS == 0
BAD_USER_NAME_OR_PASSWORD == 134
BAD_AUTHENTICATION_METHOD == 140

NORMAL_DISCONNECTION == 0
DISCONNECT_WITH_WILL_MESSAGE == 4
UNSPECIFIED_ERROR == 128
MALFORMED_PACKET == 129
PROTOCOL_ERROR == 130

GRANTED_QOS_0 == 0
UNSUBACK_SUCCESS == 0
NO_SUBSCRIPTION_EXISTED == 17

(***************************************************************************)
(* Values the environment sends.  Topics and topic filters are sequences   *)
(* of characters, payloads are strings (only their length and identity     *)
(* matter to the broker).                                                  *)
(***************************************************************************)
Conns == 1..MaxConns

ClientIds == {"c1", "c2"}

T_ab == <<"a", "/", "b">>
T_b == <<"b">>
F_aplus == <<"a", "/", "+">>
F_bad == <<"(", "/", "+">>

\* Topics of well-formed PUBLISH packets, and one with a wildcard.
PubTopics == {T_ab, T_b}
BadPubTopics == {F_aplus}

\* Topic filters of SUBSCRIBE and UNSUBSCRIBE packets.
Filters == {T_ab, T_b, F_aplus, F_bad}

Messages == {"", "x", "y"}

\* Wills of CONNECT packets: None, or topic, payload and retain flag.
\* Python's None is NoTopic for a topic, NoMessage for a payload, NoProp for a
\* property and 0 for a connection or a session; will_retain is only ever
\* tested for truth, so its None is FALSE.
NoTopic == <<"None">>
NoMessage == "None"
NoProp == -1
NoWill == [topic |-> NoTopic, message |-> NoMessage, retain |-> FALSE]
Wills ==
    { NoWill,
      [topic |-> T_ab, message |-> "x", retain |-> FALSE],
      [topic |-> T_ab, message |-> "x", retain |-> TRUE],
      [topic |-> T_b, message |-> "x", retain |-> TRUE] }

\* MaximumPacketSize and SessionExpiryInterval properties of CONNECT.
PacketSizeProps == {NoProp, 7}
ExpiryProps == {NoProp, 10}

(***************************************************************************)
(* Topic filters: is_wildcards_in_topic and compile_wildcards_topic.       *)
(***************************************************************************)
CharIn(ch, s) == \E i \in 1..Len(s) : s[i] = ch

is_wildcards_in_topic(topic) == CharIn("#", topic) \/ CharIn("+", topic)

\* The pattern as a sequence of tokens: "NS" is [^/]*, "DS" is .*,
\* "ANY" is the regular expression dot, every other token is a literal
\* character.  '+' is replaced first, then '/#', then '#'.
RECURSIVE Tokens(_)
Tokens(topic) ==
    IF topic = <<>> THEN <<>>
    ELSE IF Head(topic) = "+" THEN <<"NS">> \o Tokens(Tail(topic))
    ELSE IF Head(topic) = "/" /\ Len(topic) >= 2 /\ topic[2] = "#"
         THEN <<"DS">> \o Tokens(Tail(Tail(topic)))
    ELSE IF Head(topic) = "#" THEN <<"DS">> \o Tokens(Tail(topic))
    ELSE IF Head(topic) = "." THEN <<"ANY">> \o Tokens(Tail(topic))
    ELSE <<Head(topic)>> \o Tokens(Tail(topic))

\* re.compile raises re.error for an unterminated group.
CompileFails(topic) == CharIn("(", topic)

compile_wildcards_topic(topic) == Tokens(topic)

\* re_topic.match(topic) for a pattern anchored at both ends.  Without
\* flags the dot matches every character but the line feed, and '$'
\* matches at the end and before a line feed that ends the string.
RECURSIVE Match(_, _)
Match(p, t) ==
    IF p = <<>> THEN t = <<>> \/ t = <<"\n">>
    ELSE IF Head(p) = "NS"
         THEN \/ Match(Tail(p), t)
              \/ t # <<>> /\ Head(t) # "/" /\ Match(p, Tail(t))
    ELSE IF Head(p) = "DS"
         THEN \/ Match(Tail(p), t)
              \/ t # <<>> /\ Head(t) # "\n" /\ Match(p, Tail(t))
    ELSE IF Head(p) = "ANY"
         THEN t # <<>> /\ Head(t) # "\n" /\ Match(Tail(p), Tail(t))
    ELSE t # <<>> /\ Head(t) = Head(p) /\ Match(Tail(p), Tail(t))

(***************************************************************************)
(* Packets the broker writes, and their packed length.                     *)
(***************************************************************************)
Packet(type, sp, code, reasons, topic, msg) ==
    [type |-> type, sp |-> sp, code |-> code, reasons |-> reasons,
     topic |-> topic, msg |-> msg]

Connack(sp, reason) == Packet("CONNACK", sp, reason, <<>>, <<>>, "")
Suback(reasons) == Packet("SUBACK", FALSE, 0, reasons, <<>>, "")
Unsuback(reasons) == Packet("UNSUBACK", FALSE, 0, reasons, <<>>, "")
Publish(topic, msg) == Packet("PUBLISH", FALSE, 0, <<>>, topic, msg)
Pingresp == Packet("PINGRESP", FALSE, 0, <<>>, <<>>, "")
Disconnect(reason) == Packet("DISCONNECT", FALSE, reason, <<>>, <<>>, "")

\* len(pack_variable_integer(value))
VarIntLen(value) ==
    IF value < 128 THEN 1
    ELSE IF value < 16384 THEN 2
    ELSE IF value < 2097152 THEN 3
    ELSE 4

\* len(pack_fixed_header(type, flags, size)) + size
Framed(size) == 1 + VarIntLen(size) + size

PackedLen(p) ==
    CASE p.type = "CONNACK" -> Framed(2 + 7)
      [] p.type = "SUBACK" -> Framed(2 + 1 + Len(p.reasons))
      [] p.type = "UNSUBACK" -> Framed(3 + Len(p.reasons))
      [] p.type = "PUBLISH" -> Framed(2 + Len(p.topic) + Len(p.msg) + 1)
      [] p.type = "PINGRESP" -> Framed(0)
      [] p.type = "DISCONNECT" -> Framed(2)

(***************************************************************************)
(* State.  A connection c is one Client object and its task: pc[c] is the  *)
(* position of serve_forever ("closed": it returned and the Client object  *)
(* is gone, "raised": it ended with an unhandled exception),               *)
(* client_session[c] is Client._session (0 for None) and written[c] is     *)
(* the buffer of the writer of c: the packets a handler wrote that the     *)
(* event loop has not sent yet.  The broker never reads a buffer, so the   *)
(* model lets the event loop send the buffers (Drain) before the next      *)
(* handler runs, unless env.slow says that peers may be slow to read; the  *)
(* bytes a peer receives are the concatenation of the buffers in step      *)
(* order.  Client._disconnect_reason is UNSPECIFIED_ERROR until the step   *)
(* that ends the task and is a parameter of that step.                     *)
(*                                                                         *)
(* heap holds the Session objects, addressed by slot; a slot whose object  *)
(* nothing refers to holds FreeSlot (the object has been reclaimed).       *)
(* sessions, subscribers, wildcard_subscribers and retained_messages are   *)
(* the Broker's fields.                                                    *)
(*                                                                         *)
(* will_void is a history variable: will_void[sid] holds when the          *)
(* connection whose CONNECT stored the current will of Session sid has     *)
(* since ended with a normal disconnection.  env is the set of packets     *)
(* the peers send in this behaviour and whether they may be slow to read;  *)
(* it never changes.                                                       *)
(*                                                                         *)
(* client_tasks is Broker._client_tasks, the tasks of serve_client named   *)
(* by their connection, and serving says that the task of                  *)
(* Broker.serve_forever has not been cancelled.  A handler task that was   *)
(* cancelled is at "cancelling" until CancelledError is raised in it and   *)
(* at "cancelled" afterwards.                                              *)
(*                                                                         *)
(* idle is a clock of the environment: idle[sid] is the time, in seconds   *)
(* and up to MaxIdle, that has passed since Session sid was left without   *)
(* a connection.                                                           *)
(*                                                                         *)
(* unit is the state of a part of the package that is exercised on its     *)
(* own, outside a running broker: the arguments and the result of a call   *)
(* of a function, or the fields of a client.  A running broker leaves it   *)
(* at NoUnit.                                                              *)
(***************************************************************************)
VARIABLES pc, client_session, written,
          heap, sessions, subscribers, wildcard_subscribers,
          retained_messages, will_void, env, client_tasks, serving, idle,
          unit

vars == <<pc, client_session, written,
          heap, sessions, subscribers, wildcard_subscribers,
          retained_messages, will_void, env, client_tasks, serving, idle,
          unit>>

SessionIds == 1..MaxSessions

\* Keys of Broker._subscribers that can hold a session.
LiteralFilters == {f \in Filters \cup PubTopics : ~is_wildcards_in_topic(f)}

\* Session.__init__
Session(client_id) ==
    [client_id |-> client_id,
     subscriptions |-> {},
     wildcard_subscriptions |-> {},
     expiry_interval |-> 0,
     client |-> 0,
     maximum_packet_size |-> MAXIMUM_PACKET_SIZE,
     will_topic |-> NoTopic,
     will_message |-> NoMessage,
     will_retain |-> FALSE]

\* The content of a heap slot that holds no object.
FreeSlot == Session("")

\* Session.clean
clean(s) ==
    [s EXCEPT !.subscriptions = {},
              !.wildcard_subscriptions = {},
              !.expiry_interval = 0,
              !.client = 0,
              !.maximum_packet_size = MAXIMUM_PACKET_SIZE,
              !.will_topic = NoTopic,
              !.will_message = NoMessage]

\* The broker's and the writers' state as one value, so that a handler is
\* a function from state to state.
Current ==
    [heap |-> heap, sessions |-> sessions, subscribers |-> subscribers,
     wildcard_subscribers |-> wildcard_subscribers,
     retained_messages |-> retained_messages,
     out |-> written,
     will_void |-> will_void, raised |-> ""]

\* x in s, for a list s
InSeq(x, s) == \E i \in 1..Len(s) : s[i] = x

\* The index of the first element of s that equals x.
FirstIndex(s, x) ==
    CHOOSE i \in 1..Len(s) : s[i] = x /\ \A j \in 1..(i - 1) : s[j] # x

\* del s[i]
RemoveAt(s, i) == SubSeq(s, 1, i - 1) \o SubSeq(s, i + 1, Len(s))

\* self._subscribers[topic] of a defaultdict(list)
TopicSessions(subs, topic) ==
    IF topic \in DOMAIN subs THEN subs[topic] ELSE <<>>

\* Broker.add_subscriber
add_subscriber(subs, topic, sid) ==
    IF InSeq(sid, subs[topic]) THEN subs
    ELSE [subs EXCEPT ![topic] = Append(@, sid)]

\* Broker.remove_subscriber
remove_subscriber(subs, topic, sid) ==
    IF InSeq(sid, subs[topic])
    THEN [subs EXCEPT ![topic] = RemoveAt(@, FirstIndex(@, sid))]
    ELSE subs

\* Broker.add_wildcard_subscriber (the compiled matcher is a function of
\* the filter and is recomputed where it is used)
add_wildcard_subscriber(ws, topic, sid) == Append(ws, <<topic, sid>>)

\* remove_wildcard_subscriber that finds no entry.
remove_wildcard_subscriber_none(ws, topic, sid) == ws

\* Broker.remove_wildcard_subscriber
remove_wildcard_subscriber(ws, topic, sid) ==
    IF InSeq(<<topic, sid>>, ws)
    THEN RemoveAt(ws, FirstIndex(ws, <<topic, sid>>))
    ELSE ws

\* Broker._retained_messages is a dict: a sequence of <<topic, message>>
\* in insertion order with at most one entry per topic.
HasRetained(rm, topic) == \E i \in 1..Len(rm) : rm[i][1] = topic

\* add_retained_message that keeps the payload a topic already has.
add_retained_message_keeps_first(rm, topic, message) ==
    IF HasRetained(rm, topic) THEN rm
    ELSE Append(rm, <<topic, message>>)

\* Broker.add_retained_message
add_retained_message(rm, topic, message) ==
    IF HasRetained(rm, topic)
    THEN [i \in 1..Len(rm) |->
             IF rm[i][1] = topic THEN <<topic, message>> ELSE rm[i]]
    ELSE Append(rm, <<topic, message>>)

\* Broker.remove_retained_message
remove_retained_message(rm, topic) ==
    SelectSeq(rm, LAMBDA e : e[1] # topic)

\* Broker.find_retained_messages_wildcards
find_retained_messages_wildcards(rm, topic) ==
    SelectSeq(rm, LAMBDA e : Match(compile_wildcards_topic(topic), e[1]))

\* Broker.find_retained_message, as a list of zero or one pair
find_retained_message(rm, topic) ==
    SelectSeq(rm, LAMBDA e : e[1] = topic)

\* _write_packet without the test of the packet's length.
write_packet_uncapped(o, h, c, sid, packet) ==
    [o EXCEPT ![c] = Append(@, packet)]

\* _write_packet that puts the packet in front of the writer's buffer.
write_packet_front(o, h, c, sid, packet) ==
    IF PackedLen(packet) <= h[sid].maximum_packet_size
    THEN [o EXCEPT ![c] = <<packet>> \o @]
    ELSE o

\* Client._write_packet of connection c bound to session sid
write_packet(o, h, c, sid, packet) ==
    IF PackedLen(packet) <= h[sid].maximum_packet_size
    THEN [o EXCEPT ![c] = Append(@, packet)]
    ELSE o

\* iter_subscribers without its first loop.
iter_subscribers_wildcards_only(h, subs, ws, topic) ==
    [i \in 1..Len(SelectSeq(ws, LAMBDA e :
                     h[e[2]].client # 0
                     /\ Match(compile_wildcards_topic(e[1]), topic))) |->
        SelectSeq(ws, LAMBDA e :
            h[e[2]].client # 0
            /\ Match(compile_wildcards_topic(e[1]), topic))[i][2]]

\* Broker.iter_subscribers
iter_subscribers(h, subs, ws, topic) ==
    SelectSeq(TopicSessions(subs, topic), LAMBDA sid : h[sid].client # 0)
    \o
    [i \in 1..Len(SelectSeq(ws, LAMBDA e :
                     h[e[2]].client # 0
                     /\ Match(compile_wildcards_topic(e[1]), topic))) |->
        SelectSeq(ws, LAMBDA e :
            h[e[2]].client # 0
            /\ Match(compile_wildcards_topic(e[1]), topic))[i][2]]

\* The loop of Broker.publish over the sessions iter_subscribers yields:
\* session.client.publish(topic, message) writes on the connection the
\* session is bound to.
RECURSIVE publish_to(_, _, _, _, _)
publish_to(o, h, targets, topic, message) ==
    IF targets = <<>> THEN o
    ELSE publish_to(
             write_packet(o, h, h[Head(targets)].client, Head(targets),
                          Publish(topic, message)),
             h, Tail(targets), topic, message)

\* Broker.publish
publish(st, topic, message) ==
    [st EXCEPT !.out =
        publish_to(st.out, st.heap,
                   iter_subscribers(st.heap, st.subscribers,
                                    st.wildcard_subscribers, topic),
                   topic, message)]

(***************************************************************************)
(* Broker.get_session and Client.on_connect.                               *)
(***************************************************************************)
RECURSIVE remove_subscribers(_, _, _)
remove_subscribers(subs, topics, sid) ==
    IF topics = {} THEN subs
    ELSE LET topic == CHOOSE t \in topics : TRUE
         IN remove_subscribers(remove_subscriber(subs, topic, sid),
                               topics \ {topic}, sid)

RECURSIVE remove_wildcard_subscribers(_, _, _)
remove_wildcard_subscribers(ws, topics, sid) ==
    IF topics = {} THEN ws
    ELSE LET topic == CHOOSE t \in topics : TRUE
         IN remove_wildcard_subscribers(
                remove_wildcard_subscriber(ws, topic, sid),
                topics \ {topic}, sid)

\* The slots that hold no object.
FreeSlots(st) == {sid \in SessionIds : st.heap[sid] = FreeSlot}

\* The session get_session returns, as its slot in the heap; a new Session
\* object takes the first free slot.
SessionOf(st, client_id) ==
    IF st.sessions[client_id] # 0 THEN st.sessions[client_id]
    ELSE CHOOSE sid \in FreeSlots(st) : \A other \in FreeSlots(st) : sid <= other

\* session_present as get_session returns it.
SessionPresent(st, client_id, clean_start) ==
    st.sessions[client_id] # 0 /\ ~clean_start

\* get_session that cleans the session and leaves the wildcard index alone.
get_session_keeps_wildcards(st, client_id, clean_start) ==
    IF st.sessions[client_id] # 0
    THEN LET sid == st.sessions[client_id]
             session == st.heap[sid]
         IN IF clean_start
            THEN [st EXCEPT
                     !.subscribers =
                         remove_subscribers(@, session.subscriptions, sid),
                     !.heap[sid] = clean(session)]
            ELSE st
    ELSE [st EXCEPT !.heap[SessionOf(st, client_id)] = Session(client_id),
                    !.sessions[client_id] = SessionOf(st, client_id)]

\* Broker.get_session: the state it leaves.
get_session(st, client_id, clean_start) ==
    IF st.sessions[client_id] # 0
    THEN LET sid == st.sessions[client_id]
             session == st.heap[sid]
         IN IF clean_start
            THEN [st EXCEPT
                     !.subscribers =
                         remove_subscribers(@, session.subscriptions, sid),
                     !.wildcard_subscribers =
                         remove_wildcard_subscribers(
                             @, session.wildcard_subscriptions, sid),
                     !.heap[sid] = clean(session)]
            ELSE st
    ELSE [st EXCEPT !.heap[SessionOf(st, client_id)] = Session(client_id),
                    !.sessions[client_id] = SessionOf(st, client_id)]

\* on_connect that tests the user name and password before the
\* authentication method.
ConnectReasonMethodLast(auth, cred) ==
    IF auth THEN BAD_AUTHENTICATION_METHOD
    ELSE IF cred THEN BAD_USER_NAME_OR_PASSWORD
    ELSE CONNECT_SUCCESS

\* The reason on_connect puts in the CONNACK.
ConnectReason(auth, cred) ==
    IF cred THEN BAD_USER_NAME_OR_PASSWORD
    ELSE IF auth THEN BAD_AUTHENTICATION_METHOD
    ELSE CONNECT_SUCCESS

\* Client.on_connect up to and including the CONNACK.  mps and expiry are
\* the MaximumPacketSize and SessionExpiryInterval properties (NoProp if
\* absent), auth says that AuthenticationMethod is among the properties,
\* cred that a user name or a password is present.
on_connect(st, c, client_id, clean_start, will, mps, expiry, auth, cred) ==
    LET sid == SessionOf(st, client_id)
        session_present == SessionPresent(st, client_id, clean_start)
        st1 == get_session(st, client_id, clean_start)
        s1 == st1.heap[sid]
        s2 == [s1 EXCEPT
                  !.client = c,
                  !.maximum_packet_size = IF mps # NoProp THEN mps ELSE @,
                  !.will_topic = will.topic,
                  !.will_message = will.message,
                  !.will_retain = will.retain,
                  !.expiry_interval = IF expiry # NoProp THEN expiry ELSE @]
        h2 == [st1.heap EXCEPT ![sid] = s2]
    IN [st1 EXCEPT
           !.heap = h2,
           !.will_void[sid] = FALSE,
           !.out = write_packet(@, h2, c, sid,
                                Connack(session_present,
                                        ConnectReason(auth, cred)))]

(***************************************************************************)
(* The end of Client.serve_forever, lines 129-142, for a connection bound  *)
(* to session sid (0 for None) that ends with disconnect reason `reason'.  *)
(* remove_session raises KeyError when the client id is not registered;    *)
(* the exception leaves serve_forever.                                     *)
(***************************************************************************)
remove_session(st, client_id) ==
    IF st.sessions[client_id] # 0
    THEN [st EXCEPT !.sessions[client_id] = 0]
    ELSE [st EXCEPT !.raised = "KeyError"]

finish(st, c, sid, reason) ==
    IF sid = 0 THEN st
    ELSE LET st1 == [st EXCEPT
                        !.heap[sid].client = 0,
                        !.will_void[sid] =
                            @ \/ (st.heap[sid].client = c
                                  /\ reason = NORMAL_DISCONNECTION)]
             session == st1.heap[sid]
             st2 == IF session.will_topic # NoTopic
                       /\ reason # NORMAL_DISCONNECTION
                    THEN LET st2a == publish(st1, session.will_topic,
                                             session.will_message)
                         IN IF session.will_retain
                            THEN [st2a EXCEPT !.retained_messages =
                                     add_retained_message(
                                         @, session.will_topic,
                                         session.will_message)]
                            ELSE st2a
                    ELSE st1
         IN IF session.expiry_interval = 0
            THEN remove_session(st2, session.client_id)
            ELSE st2

\* The `except Exception' branch of serve_forever followed by its end:
\* a DISCONNECT with the reason is written when a session is bound.
fail(st, c, sid, reason) ==
    finish(IF sid = 0 THEN st
           ELSE [st EXCEPT !.out = write_packet(@, st.heap, c, sid,
                                                Disconnect(reason))],
           c, sid, reason)

(***************************************************************************)
(* Client.on_subscribe.  The loop state carries the reasons and the       *)
(* retained messages collected so far; err is set when re.compile raises,  *)
(* which ends the loop.                                                    *)
(***************************************************************************)
RECURSIVE subscribe_loop(_, _, _)
subscribe_loop(ls, sid, topics) ==
    IF topics = <<>> \/ ls.err THEN ls
    ELSE
      LET topic == Head(topics)
          session == ls.st.heap[sid]
      IN
      IF is_wildcards_in_topic(topic)
      THEN
        LET fresh == topic \notin session.wildcard_subscriptions
            st1 == IF fresh
                   THEN [ls.st EXCEPT
                            !.heap[sid].wildcard_subscriptions =
                                @ \cup {topic},
                            !.wildcard_subscribers =
                                IF CompileFails(topic) THEN @
                                ELSE add_wildcard_subscriber(@, topic, sid)]
                   ELSE ls.st
        IN IF CompileFails(topic)
           THEN [ls EXCEPT !.st = st1, !.err = TRUE]
           ELSE subscribe_loop(
                    [ls EXCEPT
                        !.st = st1,
                        !.retained = @ \o find_retained_messages_wildcards(
                                              ls.st.retained_messages, topic),
                        !.reasons = Append(@, GRANTED_QOS_0)],
                    sid, Tail(topics))
      ELSE
        LET st1 == IF topic \notin session.subscriptions
                   THEN [ls.st EXCEPT
                            !.heap[sid].subscriptions = @ \cup {topic},
                            !.subscribers = add_subscriber(@, topic, sid)]
                   ELSE ls.st
        IN subscribe_loop(
               [ls EXCEPT
                   !.st = st1,
                   !.retained = @ \o find_retained_message(
                                         ls.st.retained_messages, topic),
                   !.reasons = Append(@, GRANTED_QOS_0)],
               sid, Tail(topics))

\* Client.publish for each collected retained message
RECURSIVE publish_retained(_, _, _, _, _)
publish_retained(o, h, c, sid, retained) ==
    IF retained = <<>> THEN o
    ELSE publish_retained(
             write_packet(o, h, c, sid,
                          Publish(Head(retained)[1], Head(retained)[2])),
             h, c, sid, Tail(retained))

\* on_subscribe: the state it leaves and whether it raised.
on_subscribe(st, c, sid, topics) ==
    LET ls == subscribe_loop(
                  [st |-> st, reasons |-> <<>>, retained |-> <<>>,
                   err |-> FALSE],
                  sid, topics)
    IN IF ls.err THEN ls
       ELSE [ls EXCEPT !.st.out =
                publish_retained(
                    write_packet(@, ls.st.heap, c, sid, Suback(ls.reasons)),
                    ls.st.heap, c, sid, ls.retained)]

(***************************************************************************)
(* Client.on_unsubscribe                                                   *)
(***************************************************************************)
RECURSIVE unsubscribe_loop(_, _, _)
unsubscribe_loop(ls, sid, topics) ==
    IF topics = <<>> THEN ls
    ELSE
      LET topic == Head(topics)
          session == ls.st.heap[sid]
      IN
      IF is_wildcards_in_topic(topic)
      THEN IF topic \in session.wildcard_subscriptions
           THEN unsubscribe_loop(
                    [ls EXCEPT
                        !.st.heap[sid].wildcard_subscriptions = @ \ {topic},
                        !.st.wildcard_subscribers =
                            remove_wildcard_subscriber(@, topic, sid),
                        !.reasons = Append(@, UNSUBACK_SUCCESS)],
                    sid, Tail(topics))
           ELSE unsubscribe_loop(
                    [ls EXCEPT
                        !.reasons = Append(@, NO_SUBSCRIPTION_EXISTED)],
                    sid, Tail(topics))
      ELSE IF topic \in session.subscriptions
           THEN unsubscribe_loop(
                    [ls EXCEPT
                        !.st.heap[sid].subscriptions = @ \ {topic},
                        !.st.subscribers = remove_subscriber(@, topic, sid),
                        !.reasons = Append(@, UNSUBACK_SUCCESS)],
                    sid, Tail(topics))
           ELSE unsubscribe_loop(
                    [ls EXCEPT
                        !.reasons = Append(@, NO_SUBSCRIPTION_EXISTED)],
                    sid, Tail(topics))

on_unsubscribe(st, c, sid, topics) ==
    LET ls == unsubscribe_loop([st |-> st, reasons |-> <<>>], sid, topics)
    IN [ls.st EXCEPT !.out =
           write_packet(@, ls.st.heap, c, sid, Unsuback(ls.reasons))]

\* on_publish that returns once a retained message was removed.
on_publish_clear_only(st, topic, message, retain) ==
    IF retain /\ message = ""
    THEN [st EXCEPT !.retained_messages = remove_retained_message(@, topic)]
    ELSE publish(
             IF retain
             THEN [st EXCEPT !.retained_messages =
                      add_retained_message(@, topic, message)]
             ELSE st,
             topic, message)

(***************************************************************************)
(* Client.on_publish for a PUBLISH that unpack_publish accepts and whose   *)
(* topic has no wildcard.                                                  *)
(***************************************************************************)
on_publish(st, topic, message, retain) ==
    publish(
        IF retain
        THEN [st EXCEPT !.retained_messages =
                 IF message # ""
                 THEN add_retained_message(@, topic, message)
                 ELSE remove_retained_message(@, topic)]
        ELSE st,
        topic, message)

(***************************************************************************)
(* Actions: one step of the task of connection c.                          *)
(***************************************************************************)
FilterLists == UNION {[1..n -> env.filters] : n \in 1..MaxFilters}

\* Reasons of well-formed DISCONNECT packets a client sends.
DisconnectReasons ==
    {NORMAL_DISCONNECTION, DISCONNECT_WITH_WILL_MESSAGE, UNSPECIFIED_ERROR}

NoUnit == [kind |-> "none"]

\* Broker.__init__ and no connection yet.
InitState ==
    /\ pc = [c \in Conns |-> "closed"]
    /\ client_session = [c \in Conns |-> 0]
    /\ written = [c \in Conns |-> <<>>]
    /\ heap = [sid \in SessionIds |-> FreeSlot]
    /\ will_void = [sid \in SessionIds |-> FALSE]
    /\ sessions = [id \in ClientIds |-> 0]
    /\ subscribers = [t \in LiteralFilters |-> <<>>]
    /\ wildcard_subscribers = <<>>
    /\ retained_messages = <<>>
    /\ client_tasks = {}
    /\ serving = TRUE
    /\ idle = [sid \in SessionIds |-> 0]

InitBroker == InitState /\ unit = NoUnit

\* A Session object is referred to by the registry, by the subscription
\* index or by the Client object of a running task.
Referenced(st, cs, sid) ==
    \/ \E id \in ClientIds : st.sessions[id] = sid
    \/ \E t \in DOMAIN st.subscribers : InSeq(sid, st.subscribers[t])
    \/ \E i \in 1..Len(st.wildcard_subscribers) :
           st.wildcard_subscribers[i][2] = sid
    \/ \E c \in Conns : cs[c] = sid

\* The state after a handler ran; Session objects nothing refers to are
\* reclaimed.
Commit(st, cs) ==
    /\ client_session' = cs
    /\ heap' = [sid \in SessionIds |->
                   IF Referenced(st, cs, sid) THEN st.heap[sid]
                   ELSE FreeSlot]
    /\ will_void' = [sid \in SessionIds |->
                          IF Referenced(st, cs, sid) THEN st.will_void[sid]
                          ELSE FALSE]
    /\ sessions' = st.sessions
    /\ subscribers' = st.subscribers
    /\ wildcard_subscribers' = st.wildcard_subscribers
    /\ retained_messages' = st.retained_messages
    /\ written' = st.out
    /\ idle' = [sid \in SessionIds |->
                   IF Referenced(st, cs, sid) /\ st.heap[sid].client = 0
                   THEN idle[sid] ELSE 0]
    /\ UNCHANGED <<env, serving, unit>>

\* serve_client whose finally clause leaves the task in _client_tasks.
CloseTracked(c, st) ==
    /\ pc' = [pc EXCEPT ![c] = IF st.raised = "" THEN "closed" ELSE "raised"]
    /\ UNCHANGED client_tasks
    /\ Commit(st, [client_session EXCEPT ![c] = 0])

\* serve_forever returns or raises: the task of c is over and its Client
\* object is gone; the finally clause of serve_client takes the task out
\* of _client_tasks.
Close(c, st) ==
    /\ pc' = [pc EXCEPT ![c] = IF st.raised = "" THEN "closed" ELSE "raised"]
    /\ client_tasks' = client_tasks \ {c}
    /\ Commit(st, [client_session EXCEPT ![c] = 0])

\* Every writer's buffer has been sent.
Drained == \A k \in Conns : written[k] = <<>>

\* The event loop sends the writers' buffers to the peers.
Drain ==
    /\ ~Drained
    /\ written' = [k \in Conns |-> <<>>]
    /\ UNCHANGED <<pc, client_session, heap, sessions, subscribers,
                   wildcard_subscribers, retained_messages, will_void, env,
                   client_tasks, serving, idle, unit>>

\* A handler of connection c in one of the positions `at' runs.  With
\* slow peers it finds packets of earlier handlers still in the writers'
\* buffers, fewer than MaxBuffered in each.
Runs(c, at) ==
    /\ pc[c] \in at
    /\ \/ Drained
       \/ env.slow /\ \A k \in Conns : Len(written[k]) < MaxBuffered

\* Broker.serve_client: a connection is accepted while the listener
\* runs, the task enters _client_tasks, Client.__init__ with the writer of
\* the new connection.
Accept(c) ==
    /\ Runs(c, {"closed", "raised"})
    /\ serving
    /\ pc' = [pc EXCEPT ![c] = "await"]
    /\ client_tasks' = client_tasks \cup {c}
    /\ Commit([Current EXCEPT !.out[c] = <<>>], client_session)

\* serve_forever reads a CONNECT that unpack_connect accepts.
RecvConnect(c, client_id, clean_start, will, mps, expiry, auth, cred) ==
    /\ Runs(c, {"await"})
    /\ sessions[client_id] # 0 \/ FreeSlots(Current) # {}
    /\ LET sid == SessionOf(Current, client_id)
           st == on_connect(Current, c, client_id, clean_start, will, mps,
                            expiry, auth, cred)
       IN IF ConnectReason(auth, cred) # CONNECT_SUCCESS
          THEN \* ConnectError
               Close(c, finish(st, c, sid, UNSPECIFIED_ERROR))
          ELSE /\ pc' = [pc EXCEPT ![c] = "connected"]
               /\ UNCHANGED client_tasks
               /\ Commit(st, [client_session EXCEPT ![c] = sid])

\* A packet that fails to decode: MalformedPacketError from unpack_connect,
\* unpack_publish, unpack_subscribe, unpack_unsubscribe or
\* unpack_disconnect, raised before the handler changed anything.
RecvMalformed(c) ==
    /\ Runs(c, {"await", "connected"})
    /\ Close(c, fail(Current, c, client_session[c], MALFORMED_PACKET))

\* reader_loop that raises MalformedPacketError for a packet type it does
\* not accept.
RecvUnexpectedAsMalformed(c) ==
    /\ Runs(c, {"await", "connected"})
    /\ IF pc[c] = "await"
       THEN Close(c, Current)
       ELSE Close(c, fail(Current, c, client_session[c], MALFORMED_PACKET))

\* serve_forever that answers a first packet other than CONNECT like a
\* protocol error, with a DISCONNECT written though no session is bound.
RecvUnexpectedDisconnects(c) ==
    /\ Runs(c, {"await", "connected"})
    /\ IF pc[c] = "await"
       THEN Close(c, [Current EXCEPT
                         !.out[c] = Append(@, Disconnect(PROTOCOL_ERROR))])
       ELSE Close(c, fail(Current, c, client_session[c], PROTOCOL_ERROR))

\* A packet type the state does not accept: ConnectError before CONNECT,
\* ProtocolError in reader_loop.
RecvUnexpected(c) ==
    /\ Runs(c, {"await", "connected"})
    /\ IF pc[c] = "await"
       THEN Close(c, Current)
       ELSE Close(c, fail(Current, c, client_session[c], PROTOCOL_ERROR))

\* The peer closed the socket: asyncio.IncompleteReadError.
RecvEOF(c) ==
    /\ Runs(c, {"await", "connected"})
    /\ Close(c, finish(Current, c, client_session[c], UNSPECIFIED_ERROR))

\* reader_loop reads a PUBLISH with QoS 0 and a topic without wildcards.
RecvPublish(c, topic, message, retain) ==
    /\ Runs(c, {"connected"})
    /\ UNCHANGED <<pc, client_tasks>>
    /\ Commit(on_publish(Current, topic, message, retain), client_session)

\* on_publish that looks at the topic once the retain flag has been
\* served.
on_publish_checks_topic_last(st, topic, message, retain, qos) ==
    IF qos = 0 /\ retain
    THEN [st EXCEPT !.retained_messages =
             IF message # ""
             THEN add_retained_message(@, topic, message)
             ELSE remove_retained_message(@, topic)]
    ELSE st

\* Client.on_publish up to its raise: unpack_publish raises
\* MalformedPacketError for a QoS above 0 once it has read the topic, and
\* on_publish raises it for a wildcard in the topic before it looks at the
\* retain flag.
on_publish_malformed(st, topic, message, retain, qos) == st

\* reader_loop reads a PUBLISH with QoS above 0 or with a wildcard in its
\* topic: MalformedPacketError before any effect.
RecvBadPublish(c, topic, message, retain, qos) ==
    /\ Runs(c, {"connected"})
    /\ qos > 0 \/ is_wildcards_in_topic(topic)
    /\ Close(c, fail(on_publish_malformed(Current, topic, message, retain,
                                          qos),
                     c, client_session[c], MALFORMED_PACKET))

\* reader_loop reads a SUBSCRIBE.  When re.compile raises, the exception
\* is neither MalformedPacketError nor ProtocolError and the reason stays
\* UNSPECIFIED_ERROR.
RecvSubscribe(c, topics) ==
    /\ Runs(c, {"connected"})
    /\ LET ls == on_subscribe(Current, c, client_session[c], topics)
       IN IF ls.err
          THEN Close(c, fail(ls.st, c, client_session[c], UNSPECIFIED_ERROR))
          ELSE /\ UNCHANGED <<pc, client_tasks>>
               /\ Commit(ls.st, client_session)

\* reader_loop reads an UNSUBSCRIBE.
RecvUnsubscribe(c, topics) ==
    /\ Runs(c, {"connected"})
    /\ UNCHANGED <<pc, client_tasks>>
    /\ Commit(on_unsubscribe(Current, c, client_session[c], topics),
              client_session)

\* Client.on_pingreq of connection c bound to session sid
on_pingreq(st, c, sid) ==
    [st EXCEPT !.out = write_packet(@, st.heap, c, sid, Pingresp)]

\* reader_loop reads a PINGREQ: on_pingreq.
RecvPingreq(c) ==
    /\ Runs(c, {"connected"})
    /\ UNCHANGED <<pc, client_tasks>>
    /\ Commit(on_pingreq(Current, c, client_session[c]), client_session)

\* reader_loop reads a DISCONNECT: on_disconnect raises DisconnectError
\* whatever the reason, and serve_forever records a normal disconnection.
RecvDisconnect(c, reason) ==
    /\ Runs(c, {"connected"})
    /\ Close(c, finish(Current, c, client_session[c], NORMAL_DISCONNECTION))

Step(c) ==
    \/ Accept(c)
    \/ \E client_id \in env.ids, clean_start \in env.clean,
          will \in env.wills, mps \in env.mps,
          expiry \in env.expiry, auth \in env.auth, cred \in env.cred :
           RecvConnect(c, client_id, clean_start, will, mps, expiry,
                       auth, cred)
    \/ RecvMalformed(c)
    \/ RecvUnexpected(c)
    \/ RecvEOF(c)
    \/ \E topic \in env.topics, message \in env.messages,
          retain \in env.retain :
           RecvPublish(c, topic, message, retain)
    \/ \E topic \in env.topics \cup BadPubTopics, message \in env.messages,
          retain \in env.retain, qos \in 0..1 :
           RecvBadPublish(c, topic, message, retain, qos)
    \/ \E topics \in FilterLists : RecvSubscribe(c, topics)
    \/ \E topics \in FilterLists : RecvUnsubscribe(c, topics)
    \/ RecvPingreq(c)
    \/ \E reason \in DisconnectReasons : RecvDisconnect(c, reason)

Next == Drain \/ \E c \in Conns : Step(c)

\* Broker.serve_forever is cancelled: its `except CancelledError' clause
\* cancels every task of _client_tasks and empties the set; the listener
\* is closed.
Cancel ==
    /\ serving
    /\ Drained
    /\ serving' = FALSE
    /\ pc' = [c \in Conns |->
                 IF c \in client_tasks THEN "cancelling" ELSE pc[c]]
    /\ client_tasks' = {}
    /\ UNCHANGED <<client_session, written, heap, sessions, subscribers,
                   wildcard_subscribers, retained_messages, will_void, env,
                   idle, unit>>

\* CancelledError is raised in the read_packet of a cancelled handler
\* task.  It is no Exception, so that it leaves Client.serve_forever
\* past the end of the handler; the finally clause of serve_client finds
\* the task gone from _client_tasks (KeyError, ignored).
HandlerCancelled(c) ==
    /\ pc[c] = "cancelling"
    /\ pc' = [pc EXCEPT ![c] = "cancelled"]
    /\ client_tasks' = client_tasks \ {c}
    /\ Commit(Current, [client_session EXCEPT ![c] = 0])

\* A second passes.  The broker runs no timer (broker.py, line 35:
\* "ToDo: Session expiry"), so that only the clock of the environment
\* moves.
Tick ==
    /\ Drained
    /\ \E sid \in SessionIds :
           heap[sid] # FreeSlot /\ heap[sid].client = 0 /\ idle[sid] < MaxIdle
    /\ idle' = [sid \in SessionIds |->
                   IF heap[sid] # FreeSlot /\ heap[sid].client = 0
                      /\ idle[sid] < MaxIdle
                   THEN idle[sid] + 1 ELSE idle[sid]]
    /\ UNCHANGED <<pc, client_session, written, heap, sessions, subscribers,
                   wildcard_subscribers, retained_messages, will_void, env,
                   client_tasks, serving, unit>>

\* The broker and the passing of time.
NextExpiry == Next \/ Tick

\* The broker with a user that may cancel its serve_forever task.
NextCancel == Next \/ Cancel \/ \E c \in Conns : HandlerCancelled(c)

EnvAll ==
    [ids |-> ClientIds, clean |-> BOOLEAN, wills |-> Wills,
     mps |-> PacketSizeProps, expiry |-> ExpiryProps,
     auth |-> BOOLEAN, cred |-> BOOLEAN,
     filters |-> Filters, topics |-> PubTopics, messages |-> Messages,
     retain |-> BOOLEAN, slow |-> FALSE]

\* Two clients that subscribe, unsubscribe and publish on a/b.
EnvDelivery ==
    [EnvAll EXCEPT !.wills = {NoWill}, !.mps = {NoProp},
                   !.expiry = {NoProp}, !.auth = {FALSE}, !.cred = {FALSE},
                   !.filters = {T_ab, F_aplus}, !.topics = {T_ab},
                   !.messages = {"x"}, !.retain = {FALSE}]

\* Two connections that use one client id, with and without a will and a
\* session expiry interval.
EnvTakeover ==
    [EnvAll EXCEPT !.ids = {"c1"},
                   !.wills = {NoWill,
                              [topic |-> T_b, message |-> "x",
                               retain |-> TRUE]},
                   !.mps = {NoProp}, !.auth = {FALSE}, !.cred = {FALSE},
                   !.filters = {T_b}, !.topics = {T_b},
                   !.messages = {"x"}, !.retain = {FALSE}]

\* One client id; every PUBLISH the broker accepts on two topics.
EnvRetained ==
    [EnvAll EXCEPT !.ids = {"c1"}, !.wills = {NoWill}, !.mps = {NoProp},
                   !.expiry = {NoProp}, !.auth = {FALSE}, !.cred = {FALSE},
                   !.filters = {F_aplus}]

\* One client id with and without a session expiry interval; a filter
\* that re.compile accepts and one it rejects.
EnvSubscribe ==
    [EnvAll EXCEPT !.ids = {"c1"}, !.wills = {NoWill}, !.mps = {NoProp},
                   !.auth = {FALSE}, !.cred = {FALSE},
                   !.filters = {T_ab, F_bad}, !.topics = {T_ab},
                   !.messages = {"x"}]

\* One client id; retained messages on a/b and every kind of filter.
EnvSuback ==
    [EnvAll EXCEPT !.ids = {"c1"}, !.wills = {NoWill}, !.mps = {NoProp},
                   !.expiry = {NoProp}, !.auth = {FALSE}, !.cred = {FALSE},
                   !.filters = {T_ab, F_aplus, F_bad}, !.topics = {T_ab},
                   !.messages = {"x"}, !.retain = {TRUE}]

\* One client id; CONNECT with and without clean-start, will, maximum
\* packet size and session expiry interval.
EnvConnect ==
    [EnvAll EXCEPT !.ids = {"c1"},
                   !.wills = {NoWill,
                              [topic |-> T_b, message |-> "x",
                               retain |-> TRUE]},
                   !.auth = {FALSE}, !.cred = {FALSE},
                   !.filters = {F_aplus}, !.topics = {T_ab},
                   !.messages = {"x"}, !.retain = {FALSE}]

\* Two clients that register a will on a/b, retained or not, and may
\* limit the packet size; live publishes go to another topic.
EnvWill ==
    [EnvAll EXCEPT !.wills = {[topic |-> T_ab, message |-> "x",
                               retain |-> FALSE],
                              [topic |-> T_ab, message |-> "x",
                               retain |-> TRUE]},
                   !.clean = {FALSE}, !.expiry = {NoProp},
                   !.auth = {FALSE}, !.cred = {FALSE},
                   !.filters = {T_ab}, !.topics = {T_b},
                   !.messages = {"x"}, !.retain = {FALSE}]

\* One client id that may limit the packet size to 7 bytes; a PUBLISH on
\* a/b takes 9 bytes and one on b takes 7.
EnvCap ==
    [EnvAll EXCEPT !.ids = {"c1"}, !.clean = {FALSE}, !.wills = {NoWill},
                   !.expiry = {NoProp}, !.auth = {FALSE}, !.cred = {FALSE},
                   !.filters = {T_ab, T_b}, !.messages = {"x"},
                   !.retain = {FALSE}]

\* One client id, with or without a retained will on a/b; the session may
\* limit the packet size to 3 bytes, less than a DISCONNECT takes.
EnvError ==
    [EnvAll EXCEPT !.ids = {"c1"}, !.clean = {FALSE},
                   !.wills = {NoWill,
                              [topic |-> T_ab, message |-> "x",
                               retain |-> TRUE]},
                   !.mps = {NoProp, 3}, !.expiry = {NoProp},
                   !.auth = {FALSE}, !.cred = {FALSE},
                   !.filters = {T_ab}, !.topics = {T_ab},
                   !.messages = {"x"}, !.retain = {FALSE}]

\* One client id; CONNECT with and without AuthenticationMethod, user
\* name or password, maximum packet size and session expiry interval.
EnvAuth ==
    [EnvAll EXCEPT !.ids = {"c1"}, !.wills = {NoWill},
                   !.filters = {T_ab}, !.topics = {T_ab},
                   !.messages = {"x"}, !.retain = {FALSE}]

\* Two clients that subscribe to a/b and publish two payloads on it, with
\* peers that may be slow to read what the broker writes.
EnvFifo ==
    [EnvAll EXCEPT !.clean = {FALSE}, !.wills = {NoWill}, !.mps = {NoProp},
                   !.expiry = {NoProp}, !.auth = {FALSE}, !.cred = {FALSE},
                   !.filters = {T_ab}, !.topics = {T_ab},
                   !.messages = {"x", "y"}, !.retain = {FALSE},
                   !.slow = TRUE]

\* Two clients that connect, subscribe to a/b, publish and disconnect.
EnvCancel ==
    [EnvAll EXCEPT !.clean = {FALSE}, !.wills = {NoWill}, !.mps = {NoProp},
                   !.expiry = {NoProp}, !.auth = {FALSE}, !.cred = {FALSE},
                   !.filters = {T_ab}, !.topics = {T_ab},
                   !.messages = {"x"}, !.retain = {FALSE}]

\* One client id; CONNECT without a session expiry interval or with one of
\* MaxIdle seconds.
EnvExpiry ==
    [EnvAll EXCEPT !.ids = {"c1"}, !.wills = {NoWill}, !.mps = {NoProp},
                   !.expiry = {NoProp, MaxIdle},
                   !.auth = {FALSE}, !.cred = {FALSE},
                   !.filters = {T_ab}, !.topics = {T_ab},
                   !.messages = {"x"}, !.retain = {FALSE}]

Init == InitBroker /\ env = EnvDelivery

Spec == Init /\ [][Next]_vars

InitTakeover == InitBroker /\ env = EnvTakeover

SpecTakeover == InitTakeover /\ [][Next]_vars

InitRetained == InitBroker /\ env = EnvRetained

SpecRetained == InitRetained /\ [][Next]_vars

InitSubscribe == InitBroker /\ env = EnvSubscribe

SpecSubscribe == InitSubscribe /\ [][Next]_vars

InitSuback == InitBroker /\ env = EnvSuback

SpecSuback == InitSuback /\ [][Next]_vars

InitConnect == InitBroker /\ env = EnvConnect

SpecConnect == InitConnect /\ [][Next]_vars

InitWill == InitBroker /\ env = EnvWill

SpecWill == InitWill /\ [][Next]_vars

InitCap == InitBroker /\ env = EnvCap

SpecCap == InitCap /\ [][Next]_vars

InitError == InitBroker /\ env = EnvError

SpecError == InitError /\ [][Next]_vars

InitAuth == InitBroker /\ env = EnvAuth

SpecAuth == InitAuth /\ [][Next]_vars

InitFifo == InitBroker /\ env = EnvFifo

SpecFifo == InitFifo /\ [][Next]_vars

InitCancel == InitBroker /\ env = EnvCancel

SpecCancel == InitCancel /\ [][NextCancel]_vars

InitExpiry == InitBroker /\ env = EnvExpiry

SpecExpiry == InitExpiry /\ [][NextExpiry]_vars

(***************************************************************************)
(* Topic names and topic filters as the specification describes them       *)
(* (MQTT 5, section 4.7): levels separated by "/", "+" stands for exactly  *)
(* one level and a trailing "#" for any number of levels.                  *)
(***************************************************************************)
RECURSIVE Levels(_)
Levels(topic) ==
    IF ~CharIn("/", topic) THEN <<topic>>
    ELSE LET i == CHOOSE j \in 1..Len(topic) :
                      topic[j] = "/" /\ \A k \in 1..(j - 1) : topic[k] # "/"
         IN <<SubSeq(topic, 1, i - 1)>>
            \o Levels(SubSeq(topic, i + 1, Len(topic)))

RECURSIVE LevelsMatch(_, _)
LevelsMatch(fl, tl) ==
    IF fl = <<>> THEN tl = <<>>
    ELSE IF Head(fl) = <<"#">> THEN Len(fl) = 1
    ELSE IF tl = <<>> THEN FALSE
    ELSE (Head(fl) = <<"+">> \/ Head(fl) = Head(tl))
         /\ LevelsMatch(Tail(fl), Tail(tl))

FilterMatches(filter, topic) == LevelsMatch(Levels(filter), Levels(topic))

\* Session sid holds a subscription that matches topic.
HasMatching(sid, topic) ==
    \E f \in heap[sid].subscriptions \cup heap[sid].wildcard_subscriptions :
        FilterMatches(f, topic)

\* The number of packets of a buffer that equal packet.
CountPacket(buffer, packet) ==
    Cardinality({i \in 1..Len(buffer) : buffer[i] = packet})

\* Connection c ends in this step.
Ends(c) == pc[c] = "connected" /\ pc'[c] \in {"closed", "raised"}

(***************************************************************************)
(* C1.  Each PUBLISH on topic t that the broker processes is delivered     *)
(* exactly once to every session that holds a subscription matching t and  *)
(* has a live connection, and not at all to a session without a matching   *)
(* subscription.                                                           *)
(***************************************************************************)
C1_DeliveredExactlyOnce ==
    [][\A c \in Conns, t \in PubTopics, m \in Messages, r \in BOOLEAN :
         RecvPublish(c, t, m, r) =>
             \A sid \in SessionIds :
                 heap[sid].client # 0 =>
                     CountPacket(written'[heap[sid].client],
                                 Publish(t, m))
                         = IF HasMatching(sid, t) THEN 1 ELSE 0]_vars

\* A connection received the same PUBLISH twice in one step.
C1_DeliveredTwice ==
    \E c \in Conns :
        /\ pc[c] = "connected"
        /\ written[c] = <<Publish(T_ab, "x"), Publish(T_ab, "x")>>
        /\ heap[client_session[c]].subscriptions = {T_ab}
        /\ heap[client_session[c]].wildcard_subscriptions = {F_aplus}

(***************************************************************************)
(* C4.  At most one live connection handler is associated with a session:  *)
(* no two connections that are being served are bound to the same Session. *)
(***************************************************************************)
C4_OneConnectionPerSession ==
    \A c, k \in Conns :
        (c # k /\ pc[c] = "connected" /\ pc[k] = "connected")
            => client_session[c] # client_session[k]

\* Two served connections share one Session, and the displaced one still
\* gets a reply.
C4_DisplacedStillServed ==
    \E c, k \in Conns :
        /\ c # k
        /\ pc[c] = "connected" /\ pc[k] = "connected"
        /\ client_session[c] = client_session[k]
        /\ heap[client_session[c]].client = k
        /\ written[c] = <<Pingresp>>

(***************************************************************************)
(* C5.  When a CONNECT is accepted for a session that another live         *)
(* connection is bound to, that connection's session pointer is cleared    *)
(* in the step that produces the CONNACK.                                  *)
(***************************************************************************)
C5_TakeoverClearsPointer ==
    [][\A c \in Conns :
         (pc[c] = "await" /\ pc'[c] = "connected") =>
             \A k \in Conns \ {c} :
                 (pc[k] = "connected"
                  /\ client_session[k] = client_session'[c])
                     => client_session'[k] # client_session'[c]]_vars

\* A CONNACK with session_present was written while another connection
\* is bound to the same Session.
C5_TakeoverKeepsPointer ==
    \E c, k \in Conns :
        /\ c # k
        /\ pc[k] = "connected"
        /\ client_session[k] = client_session[c]
        /\ written[c] = <<Connack(TRUE, CONNECT_SUCCESS)>>

(***************************************************************************)
(* C3.  When a connection ends, its session is removed from the registry   *)
(* if the session's expiry interval is 0, and stays in the registry with   *)
(* its subscriptions otherwise, so that session_present of a later CONNECT *)
(* without clean-start is false in the first case and true in the second.  *)
(***************************************************************************)
C3_ExpiryDecidesRemoval ==
    [][\A c \in Conns :
         Ends(c) =>
             LET sid == client_session[c]
                 id == heap[sid].client_id
             IN IF heap[sid].expiry_interval = 0
                THEN ~SessionPresent(Current', id, FALSE)
                ELSE /\ SessionPresent(Current', id, FALSE)
                     /\ sessions'[id] = sid
                     /\ heap'[sid].subscriptions = heap[sid].subscriptions
                     /\ heap'[sid].wildcard_subscriptions
                            = heap[sid].wildcard_subscriptions]_vars

\* A served connection's session has a non-zero expiry interval and is
\* not in the registry.
C3_KeptSessionUnregistered ==
    \E c \in Conns :
        /\ pc[c] = "connected"
        /\ heap[client_session[c]].expiry_interval # 0
        /\ sessions[heap[client_session[c]].client_id] = 0

(***************************************************************************)
(* C6.  The subscription index and every session's own subscription sets   *)
(* agree: (filter, session) is in the wildcard index iff the filter is in  *)
(* session.wildcard_subscriptions, the session is in the literal index     *)
(* list of a topic iff the topic is in session.subscriptions, and no       *)
(* (filter, session) entry is in the index twice.                          *)
(***************************************************************************)
C6_IndexAgreesWithSessions ==
    \A sid \in SessionIds :
        /\ \A f \in Filters :
               /\ (f \in heap[sid].wildcard_subscriptions)
                      <=> InSeq(<<f, sid>>, wildcard_subscribers)
               /\ Cardinality({i \in 1..Len(wildcard_subscribers) :
                      wildcard_subscribers[i] = <<f, sid>>}) <= 1
        /\ \A t \in LiteralFilters :
               /\ (t \in heap[sid].subscriptions)
                      <=> InSeq(sid, subscribers[t])
               /\ Cardinality({i \in 1..Len(subscribers[t]) :
                      subscribers[t][i] = sid}) <= 1

\* A registered session holds a wildcard subscription the index lacks.
C6_SessionFilterNotIndexed ==
    \E sid \in SessionIds :
        /\ sessions["c1"] = sid
        /\ F_bad \in heap[sid].wildcard_subscriptions
        /\ ~InSeq(<<F_bad, sid>>, wildcard_subscribers)

(***************************************************************************)
(* C8.  After the connection that registered a session's will ended with   *)
(* a normal disconnection, no connection end publishes that will: no       *)
(* PUBLISH is written and the retained store does not change.              *)
(***************************************************************************)
C8_NoWillAfterNormalDisconnect ==
    [][\A c \in Conns :
         (Ends(c) /\ will_void[client_session[c]]) =>
             /\ retained_messages' = retained_messages
             /\ \A k \in Conns :
                    \A i \in 1..Len(written'[k]) :
                        written'[k][i].type # "PUBLISH"]_vars

\* The will of a normally disconnected client is in the retained store.
C8_VoidWillRetained ==
    \E sid \in SessionIds :
        /\ will_void[sid]
        /\ heap[sid].will_topic = T_b
        /\ retained_messages = <<<<T_b, "x">>>>

\* The PUBLISH packets a SUBSCRIBE with these filters is answered with: for
\* each filter in turn, the retained messages whose topic it matches.
RECURSIVE RetainedFor(_)
RetainedFor(topics) ==
    IF topics = <<>> THEN <<>>
    ELSE LET found == SelectSeq(retained_messages,
                          LAMBDA e : FilterMatches(Head(topics), e[1]))
         IN [i \in 1..Len(found) |-> Publish(found[i][1], found[i][2])]
            \o RetainedFor(Tail(topics))

(***************************************************************************)
(* C10.  Every SUBSCRIBE is answered on the subscriber's stream with the   *)
(* SUBACK first, followed by one PUBLISH for each retained message whose   *)
(* topic matches a requested filter and by nothing else; live publishes    *)
(* come with later steps.                                                  *)
(***************************************************************************)
C10_SubackThenRetained ==
    [][\A c \in Conns, topics \in FilterLists :
         RecvSubscribe(c, topics) =>
             written'[c] =
                 <<Suback([i \in 1..Len(topics) |-> GRANTED_QOS_0])>>
                 \o RetainedFor(topics)]_vars

\* A SUBSCRIBE was answered with DISCONNECT and no SUBACK.
C10_SubscribeWithoutSuback ==
    \E c \in Conns :
        /\ pc[c] = "closed"
        /\ written[c] = <<Disconnect(UNSPECIFIED_ERROR)>>

\* The payloads the retained store rm holds for topic, in store order.
Entries(rm, topic) ==
    [i \in 1..Len(find_retained_message(rm, topic)) |->
        find_retained_message(rm, topic)[i][2]]

(***************************************************************************)
(* C9.  After a PUBLISH on t with retain set and a non-empty payload p     *)
(* the retained store holds exactly p for t; after one with retain set     *)
(* and an empty payload it holds no entry for t; the entries of the other  *)
(* topics stay as they were; a PUBLISH without retain leaves the store     *)
(* unchanged.                                                              *)
(***************************************************************************)
C9_RetainedLifecycle ==
    [][\A c \in Conns, t \in env.topics, m \in env.messages,
          r \in env.retain :
         (pc[c] = "connected" /\ RecvPublish(c, t, m, r)) =>
             IF r
             THEN /\ Entries(retained_messages', t)
                         = IF m # "" THEN <<m>> ELSE <<>>
                  /\ \A u \in PubTopics \ {t} :
                         Entries(retained_messages', u)
                             = Entries(retained_messages, u)
             ELSE retained_messages' = retained_messages]_vars

\* The store holds y for a/b, stored before the entry of b, and x for b.
C9_PayloadReplaced ==
    retained_messages = <<<<T_ab, "y">>, <<T_b, "x">>>>

\* The value CONNECT leaves in a session field: the packet's property if
\* it has one, else what the session held.
Given(prop, held) == IF prop # NoProp THEN prop ELSE held

\* Session sid has no entry in the subscription index st.
NotIndexed(st, sid) ==
    /\ \A t \in DOMAIN st.subscribers : ~InSeq(sid, st.subscribers[t])
    /\ \A i \in 1..Len(st.wildcard_subscribers) :
           st.wildcard_subscribers[i][2] # sid

\* What CONNECT writes: the CONNACK, unless it exceeds the session's
\* maximum packet size.
ConnackWritten(sid, session_present) ==
    IF PackedLen(Connack(session_present, CONNECT_SUCCESS))
           <= heap'[sid].maximum_packet_size
    THEN <<Connack(session_present, CONNECT_SUCCESS)>>
    ELSE <<>>

EndsAbnormally(c) ==
    /\ Ends(c)
    /\ \/ RecvEOF(c)
       \/ RecvMalformed(c)
       \/ RecvUnexpected(c)
       \/ \E topic \in env.topics \cup BadPubTopics,
             message \in env.messages, retain \in env.retain,
             qos \in 0..1 :
              RecvBadPublish(c, topic, message, retain, qos)

\* Session sid has a connection handle once connection c is detached.
LiveWithout(c, sid) ==
    sid # client_session[c] /\ heap[sid].client # 0

\* The will of the session of connection c, as a PUBLISH packet.
WillOf(c) ==
    Publish(heap[client_session[c]].will_topic,
            heap[client_session[c]].will_message)

\* The retained store after the end of connection c follows the will's
\* retain flag.
WillStored(c) ==
    IF heap[client_session[c]].will_retain
    THEN /\ Entries(retained_messages', WillOf(c).topic)
                = <<WillOf(c).msg>>
         /\ \A u \in PubTopics \ {WillOf(c).topic} :
                Entries(retained_messages', u)
                    = Entries(retained_messages, u)
    ELSE retained_messages' = retained_messages

(***************************************************************************)
(* C7, as claimed.  When a connection whose session carries a will ends    *)
(* abnormally, the will is written to every session that has a connection  *)
(* and a matching subscription, and it is stored as retained if its        *)
(* retain flag is set.                                                     *)
(***************************************************************************)
C7_WillToEveryLiveSession ==
    [][\A c \in Conns :
         (EndsAbnormally(c)
          /\ heap[client_session[c]].will_topic # NoTopic) =>
             /\ \A sid \in SessionIds :
                    (LiveWithout(c, sid)
                     /\ HasMatching(sid, WillOf(c).topic)) =>
                        CountPacket(written'[heap[sid].client],
                                    WillOf(c)) >= 1
             /\ WillStored(c)]_vars

(***************************************************************************)
(* C7, amended.  When a connection whose session carries a will ends       *)
(* abnormally, the will is written to every session that has a connection  *)
(* and a matching subscription, unless the PUBLISH exceeds that session's  *)
(* maximum packet size, and to no session without a matching               *)
(* subscription; it is stored as retained if and only if its retain flag   *)
(* is set.                                                                 *)
(***************************************************************************)
C7_WillToEverySessionItFits ==
    [][\A c \in Conns :
         (EndsAbnormally(c)
          /\ heap[client_session[c]].will_topic # NoTopic) =>
             /\ \A sid \in SessionIds :
                    LiveWithout(c, sid) =>
                        IF HasMatching(sid, WillOf(c).topic)
                           /\ PackedLen(WillOf(c))
                                  <= heap[sid].maximum_packet_size
                        THEN CountPacket(written'[heap[sid].client],
                                         WillOf(c)) >= 1
                        ELSE CountPacket(written'[heap[sid].client],
                                         WillOf(c)) = 0
             /\ WillStored(c)]_vars

\* A connection ended, its retained will was written to the other one and
\* is in the retained store.
C7_WillPublishedAndStored ==
    \E c, k \in Conns :
        /\ pc[c] = "closed" /\ pc[k] = "connected"
        /\ written[k] = <<Publish(T_ab, "x")>>
        /\ retained_messages = <<<<T_ab, "x">>>>

\* The other topics' retained entries are as they were.
OthersKept(t) ==
    \A u \in PubTopics \ {t} :
        Entries(retained_messages', u) = Entries(retained_messages, u)

(***************************************************************************)
(* C11, as claimed.  A PUBLISH with retain set and an empty payload        *)
(* removes the retained entry of its topic and is written to no            *)
(* subscriber.                                                             *)
(***************************************************************************)
C11_EmptyRetainedNotDelivered ==
    [][\A c \in Conns, t \in env.topics :
         (pc[c] = "connected" /\ RecvPublish(c, t, "", TRUE)) =>
             /\ Entries(retained_messages', t) = <<>>
             /\ \A k \in Conns :
                    \A i \in 1..Len(written'[k]) :
                        written'[k][i].type # "PUBLISH"]_vars

(***************************************************************************)
(* C11, amended.  A PUBLISH with retain set and an empty payload removes   *)
(* the retained entry of its topic, leaves the other entries, and is then  *)
(* fanned out like any other PUBLISH: it is written, with its empty        *)
(* payload, to every session that has a connection and a matching          *)
(* subscription (unless it exceeds that session's maximum packet size)     *)
(* and to no other session.                                                *)
(***************************************************************************)
C11_EmptyRetainedClearsAndFansOut ==
    [][\A c \in Conns, t \in env.topics :
         (pc[c] = "connected" /\ RecvPublish(c, t, "", TRUE)) =>
             /\ Entries(retained_messages', t) = <<>>
             /\ OthersKept(t)
             /\ \A sid \in SessionIds :
                    heap[sid].client # 0 =>
                        IF HasMatching(sid, t)
                           /\ PackedLen(Publish(t, ""))
                                  <= heap[sid].maximum_packet_size
                        THEN CountPacket(written'[heap[sid].client],
                                         Publish(t, "")) >= 1
                        ELSE CountPacket(written'[heap[sid].client],
                                         Publish(t, "")) = 0]_vars

\* A subscriber was written a PUBLISH with an empty payload on a/b while
\* the store holds no entry for a/b and one for b.
C11_EmptyPublishDelivered ==
    \E k \in Conns :
        /\ pc[k] = "connected"
        /\ written[k] = <<Publish(T_ab, "")>>
        /\ retained_messages = <<<<T_b, "x">>>>

\* The filters of a SUBSCRIBE or UNSUBSCRIBE packet, as a set.
Asked(topics) == {topics[i] : i \in 1..Len(topics)}

\* The filters session sid holds, literal and wildcard.
Held(sid) == heap[sid].subscriptions \cup heap[sid].wildcard_subscriptions

\* One UNSUBACK reason per requested filter, in request order, for a
\* session that holds the filters `held': success for a held filter, which
\* is then no longer held, NoSubscriptionExisted otherwise.
RECURSIVE UnsubackReasons(_, _)
UnsubackReasons(held, topics) ==
    IF topics = <<>> THEN <<>>
    ELSE <<IF Head(topics) \in held THEN UNSUBACK_SUCCESS
           ELSE NO_SUBSCRIPTION_EXISTED>>
         \o UnsubackReasons(held \ {Head(topics)}, Tail(topics))

\* Session sid has an index entry for filter f in the state that follows.
IndexedNext(f, sid) ==
    \/ InSeq(<<f, sid>>, wildcard_subscribers')
    \/ f \in LiteralFilters /\ InSeq(sid, subscribers'[f])

\* Session sid has an index entry for filter f.
Indexed(f, sid) ==
    \/ InSeq(<<f, sid>>, wildcard_subscribers)
    \/ f \in LiteralFilters /\ InSeq(sid, subscribers[f])

(***************************************************************************)
(* C12.  UNSUBSCRIBE is answered with one reason per requested filter in   *)
(* request order: 0x00 for a filter the session held, which is removed     *)
(* from the session and from the index, 0x11 for one it did not hold (so   *)
(* 0x00 then 0x11 for a filter named twice); the filters not requested,    *)
(* the other sessions' index entries and the retained store stay, and      *)
(* nothing changes when no requested filter was held.                      *)
(***************************************************************************)
C12_UnsubackReasons ==
    [][\A c \in Conns, topics \in FilterLists :
         (pc[c] = "connected" /\ RecvUnsubscribe(c, topics)) =>
             LET sid == client_session[c]
                 reply == Unsuback(UnsubackReasons(Held(sid), topics))
             IN /\ pc'[c] = "connected"
                /\ written'[c] =
                       IF PackedLen(reply) <= heap[sid].maximum_packet_size
                       THEN <<reply>> ELSE <<>>
                /\ heap'[sid].subscriptions
                       = heap[sid].subscriptions \ Asked(topics)
                /\ heap'[sid].wildcard_subscriptions
                       = heap[sid].wildcard_subscriptions \ Asked(topics)
                /\ \A f \in Asked(topics) : ~IndexedNext(f, sid)
                /\ \A f \in Filters \ Asked(topics) :
                       IndexedNext(f, sid) <=> Indexed(f, sid)
                /\ \A other \in SessionIds \ {sid}, f \in Filters :
                       IndexedNext(f, other) <=> Indexed(f, other)
                /\ retained_messages' = retained_messages
                /\ Asked(topics) \cap Held(sid) = {} =>
                       UNCHANGED <<heap, sessions, subscribers,
                                   wildcard_subscribers>>]_vars

\* An UNSUBSCRIBE that named a held wildcard filter twice was answered
\* with 0x00 then 0x11, and the index is empty.
C12_SameFilterTwice ==
    \E c \in Conns :
        /\ pc[c] = "connected"
        /\ written[c] =
               <<Unsuback(<<UNSUBACK_SUCCESS, NO_SUBSCRIPTION_EXISTED>>)>>
        /\ heap[client_session[c]].subscriptions = {T_ab}
        /\ wildcard_subscribers = <<>>

\* The number of index entries of session sid for filter f in the state
\* that follows.
IndexCountNext(f, sid) ==
    Cardinality({i \in 1..Len(wildcard_subscribers') :
                    wildcard_subscribers'[i] = <<f, sid>>})
    + IF f \in LiteralFilters
      THEN Cardinality({i \in 1..Len(subscribers'[f]) :
                           subscribers'[f][i] = sid})
      ELSE 0

\* The filters session sid holds that match topic.
MatchingHeld(sid, topic) == {f \in Held(sid) : FilterMatches(f, topic)}

(***************************************************************************)
(* C13.  SUBSCRIBE is idempotent per (filter, session): every SUBSCRIBE,   *)
(* repeated or not, is acknowledged with GrantedQoS0 for each filter and   *)
(* leaves exactly one index entry per requested filter; a session holding  *)
(* one matching filter gets one PUBLISH per matching publish; and an       *)
(* UNSUBSCRIBE leaves no index entry for a requested filter.               *)
(***************************************************************************)
C13_SubscribeIdempotent ==
    [][\A c \in Conns :
         /\ \A topics \in FilterLists :
                (pc[c] = "connected" /\ RecvSubscribe(c, topics)) =>
                    /\ written'[c] # <<>>
                    /\ written'[c][1] =
                           Suback([i \in 1..Len(topics) |-> GRANTED_QOS_0])
                    /\ \A f \in Asked(topics) :
                           IndexCountNext(f, client_session[c]) = 1
         /\ \A topics \in FilterLists :
                (pc[c] = "connected" /\ RecvUnsubscribe(c, topics)) =>
                    \A f \in Asked(topics) :
                        IndexCountNext(f, client_session[c]) = 0
         /\ \A t \in env.topics, m \in env.messages, r \in env.retain :
                (pc[c] = "connected" /\ RecvPublish(c, t, m, r)) =>
                    \A sid \in SessionIds :
                        (heap[sid].client # 0
                         /\ Cardinality(MatchingHeld(sid, t)) = 1) =>
                            CountPacket(written'[heap[sid].client],
                                        Publish(t, m)) = 1]_vars

\* A SUBSCRIBE ended its connection without a SUBACK and left the filter
\* in the session, which another connection still uses, and not in the
\* index.
C13_SubscribeNotAcknowledged ==
    \E c, k \in Conns :
        /\ pc[c] = "closed" /\ pc[k] = "connected"
        /\ written[c] = <<Disconnect(UNSPECIFIED_ERROR)>>
        /\ F_bad \in heap[client_session[k]].wildcard_subscriptions
        /\ ~InSeq(<<F_bad, client_session[k]>>, wildcard_subscribers)

\* The maximum packet size of the session connection c is bound to when
\* the handler of this step writes: the session it is bound to after the
\* step or, when the step ends the connection, the one it was bound to.
LimitOf(c) ==
    IF client_session'[c] # 0
    THEN heap'[client_session'[c]].maximum_packet_size
    ELSE heap[client_session[c]].maximum_packet_size

\* What a handler leaves on connection c when it writes one packet.
WrittenIfFits(c, packet) ==
    written'[c] = IF PackedLen(packet) <= LimitOf(c) THEN <<packet>>
                  ELSE <<>>

\* The connections, the sessions, the subscription index and the retained
\* store are as they were.
NothingButWritten ==
    UNCHANGED <<pc, client_session, heap, sessions, subscribers,
                wildcard_subscribers, retained_messages>>

(***************************************************************************)
(* C14.  Outbound packet-size cap.  No packet longer than the maximum      *)
(* packet size of the receiving session is written to its connection; a    *)
(* CONNACK, SUBACK, PINGRESP or PUBLISH that is within the limit is        *)
(* written; a dropped packet neither closes the connection nor changes a   *)
(* session, the subscription index or the retained store, so that packets  *)
(* within the limit are still delivered afterwards.                        *)
(***************************************************************************)
C14_PacketSizeCap ==
    [][\A c \in Conns :
         /\ written'[c] # <<>> =>
                /\ client_session'[c] # 0 \/ client_session[c] # 0
                /\ \A i \in 1..Len(written'[c]) :
                       PackedLen(written'[c][i]) <= LimitOf(c)
         /\ \A id \in env.ids, cl \in env.clean, mps \in env.mps :
                (pc[c] = "await"
                 /\ RecvConnect(c, id, cl, NoWill, mps, NoProp, FALSE, FALSE))
                => /\ pc'[c] = "connected"
                   /\ LimitOf(c) = IF mps = NoProp
                                   THEN heap[SessionOf(Current, id)]
                                            .maximum_packet_size
                                   ELSE mps
                   /\ \E sp \in BOOLEAN :
                          WrittenIfFits(c, Connack(sp, CONNECT_SUCCESS))
         /\ (pc[c] = "connected" /\ RecvPingreq(c))
                => WrittenIfFits(c, Pingresp) /\ NothingButWritten
         /\ \A topics \in FilterLists :
                (pc[c] = "connected" /\ RecvSubscribe(c, topics))
                => /\ pc'[c] = "connected"
                   /\ WrittenIfFits(
                          c, Suback([i \in 1..Len(topics) |-> GRANTED_QOS_0]))
         /\ \A t \in env.topics, m \in env.messages :
                (pc[c] = "connected" /\ RecvPublish(c, t, m, FALSE))
                => /\ NothingButWritten
                   /\ \A sid \in SessionIds :
                          heap[sid].client # 0 =>
                              IF HasMatching(sid, t)
                                 /\ PackedLen(Publish(t, m))
                                        <= heap[sid].maximum_packet_size
                              THEN CountPacket(written'[heap[sid].client],
                                               Publish(t, m)) >= 1
                              ELSE written'[heap[sid].client] = <<>>]_vars

\* A subscriber of a/b and b whose session limits packets to 7 bytes, so
\* that its CONNACK and every PUBLISH on a/b were dropped, is written a
\* PUBLISH on b.
C14_ShortPublishAfterDrop ==
    \E k \in Conns :
        /\ pc[k] = "connected"
        /\ heap[client_session[k]].maximum_packet_size = 7
        /\ heap[client_session[k]].subscriptions = {T_ab, T_b}
        /\ heap[client_session[k]].client = k
        /\ written[k] = <<Publish(T_b, "x")>>

\* The handler of connection c is over after this step.
Over(c) == pc'[c] \in {"closed", "raised"}

\* No connection is written anything in this step.
NothingWritten == \A k \in Conns : written'[k] = <<>>

(***************************************************************************)
(* C15, as claimed.  In the Awaiting-CONNECT and in the Connected state, a *)
(* packet type outside the state's accepted set makes the handler write a  *)
(* DISCONNECT with reason 0x82 and move to Closed.                         *)
(***************************************************************************)
C15_UnexpectedPacketDisconnects ==
    [][\A c \in Conns :
         (pc[c] \in {"await", "connected"} /\ RecvUnexpected(c)) =>
             /\ written'[c] = <<Disconnect(PROTOCOL_ERROR)>>
             /\ pc'[c] = "closed"]_vars

(***************************************************************************)
(* C15, amended.  In the Connected state a packet type other than PUBLISH, *)
(* SUBSCRIBE, UNSUBSCRIBE, PINGREQ and DISCONNECT makes the handler write  *)
(* a DISCONNECT with reason 0x82, unless the DISCONNECT exceeds the        *)
(* session's maximum packet size, and ends the handler.  In the            *)
(* Awaiting-CONNECT state a packet type other than CONNECT ends the        *)
(* handler and nothing is written.                                         *)
(***************************************************************************)
C15_UnexpectedPacketEndsHandler ==
    [][\A c \in Conns :
         /\ (pc[c] = "connected" /\ RecvUnexpected(c)) =>
                /\ WrittenIfFits(c, Disconnect(PROTOCOL_ERROR))
                /\ Over(c)
         /\ (pc[c] = "await" /\ RecvUnexpected(c)) =>
                /\ NothingWritten
                /\ pc'[c] = "closed"]_vars

\* A connection that was connected has been written a DISCONNECT with
\* reason 0x82 and its handler is over.
C15_ProtocolErrorSent ==
    \E c \in Conns :
        /\ pc[c] = "closed"
        /\ written[c] = <<Disconnect(PROTOCOL_ERROR)>>

(***************************************************************************)
(* C16.  A packet that fails to decode, in the Awaiting-CONNECT state (a   *)
(* malformed CONNECT) or in the Connected state, makes the handler write a *)
(* DISCONNECT with reason 0x81 and move to Closed; the subscription index  *)
(* and the retained store stay as they were and no PUBLISH is written to   *)
(* any connection.                                                         *)
(***************************************************************************)
C16_MalformedPacketDisconnects ==
    [][\A c \in Conns :
         (pc[c] \in {"await", "connected"} /\ RecvMalformed(c)) =>
             /\ written'[c] = <<Disconnect(MALFORMED_PACKET)>>
             /\ pc'[c] = "closed"
             /\ UNCHANGED <<subscribers, wildcard_subscribers,
                            retained_messages>>
             /\ \A k \in Conns \ {c} : written'[k] = <<>>]_vars

\* A connection that was connected has been written a DISCONNECT with
\* reason 0x81 and its handler is over.
C16_MalformedPacketSent ==
    \E c \in Conns :
        /\ pc[c] = "closed"
        /\ written[c] = <<Disconnect(MALFORMED_PACKET)>>

(***************************************************************************)
(* C17.  When the first packet of a connection is not a CONNECT, nothing   *)
(* is written to any connection (no CONNACK, no DISCONNECT, no PUBLISH),   *)
(* no session is created or changed, the subscription index and the        *)
(* retained store stay as they were, and the handler ends.                 *)
(***************************************************************************)
C17_NoConnectNoResponse ==
    [][\A c \in Conns :
         (pc[c] = "await" /\ RecvUnexpected(c)) =>
             /\ NothingWritten
             /\ pc'[c] = "closed"
             /\ client_session'[c] = 0
             /\ UNCHANGED <<heap, sessions, subscribers,
                            wildcard_subscribers, retained_messages>>]_vars

\* A connection awaits its first packet while another one is connected,
\* subscribed to a/b and registered: a response or a fan-out would show.
C17_AwaitingBesideSubscriber ==
    \E c \in Conns, k \in Conns :
        /\ Drained
        /\ pc[c] = "await"
        /\ pc[k] = "connected"
        /\ heap[client_session[k]].client = k
        /\ heap[client_session[k]].subscriptions = {T_ab}
        /\ heap[client_session[k]].will_topic = T_ab
        /\ sessions["c1"] = client_session[k]

(***************************************************************************)
(* C18, as claimed.  The CONNACK of a CONNECT carries reason 0x8C whenever  *)
(* the CONNECT properties include AuthenticationMethod, 0x86 whenever a    *)
(* user name or a password is present, and 0x00 otherwise; the handler     *)
(* enters Connected only when the reason is 0x00 and otherwise closes      *)
(* after the CONNACK.                                                      *)
(***************************************************************************)
C18_ConnackReason ==
    [][\A c \in Conns, id \in env.ids, cl \in env.clean, will \in env.wills,
          mps \in env.mps, expiry \in env.expiry,
          auth \in env.auth, cred \in env.cred :
         (pc[c] = "await"
          /\ RecvConnect(c, id, cl, will, mps, expiry, auth, cred)) =>
             /\ Len(written'[c]) = 1
             /\ written'[c][1].type = "CONNACK"
             /\ auth => written'[c][1].code = BAD_AUTHENTICATION_METHOD
             /\ cred => written'[c][1].code = BAD_USER_NAME_OR_PASSWORD
             /\ (~auth /\ ~cred) => written'[c][1].code = CONNECT_SUCCESS
             /\ pc'[c] = IF written'[c][1].code = CONNECT_SUCCESS
                         THEN "connected" ELSE "closed"]_vars

\* The maximum packet size on_connect leaves in the session of client id
\* id before it writes the CONNACK.
ConnectLimit(id, clean_start, mps) ==
    IF mps # NoProp THEN mps
    ELSE IF clean_start THEN MAXIMUM_PACKET_SIZE
    ELSE heap[SessionOf(Current, id)].maximum_packet_size

(***************************************************************************)
(* C18, amended.  The CONNACK of a CONNECT carries reason 0x86 whenever a  *)
(* user name or a password is present, 0x8C when there is none and the     *)
(* properties include AuthenticationMethod, and 0x00 otherwise.  The       *)
(* CONNACK is written unless it exceeds the maximum packet size the        *)
(* CONNECT leaves in the session.  The handler enters Connected exactly    *)
(* when the reason is 0x00 and otherwise ends after the CONNACK.           *)
(***************************************************************************)
C18_ConnackReasonCredentialsFirst ==
    [][\A c \in Conns, id \in env.ids, cl \in env.clean, will \in env.wills,
          mps \in env.mps, expiry \in env.expiry,
          auth \in env.auth, cred \in env.cred :
         (pc[c] = "await"
          /\ RecvConnect(c, id, cl, will, mps, expiry, auth, cred)) =>
             LET reason == IF cred THEN BAD_USER_NAME_OR_PASSWORD
                           ELSE IF auth THEN BAD_AUTHENTICATION_METHOD
                           ELSE CONNECT_SUCCESS
             IN /\ \E sp \in BOOLEAN :
                       written'[c] =
                           IF PackedLen(Connack(sp, reason))
                                  <= ConnectLimit(id, cl, mps)
                           THEN <<Connack(sp, reason)>>
                           ELSE <<>>
                /\ pc'[c] = IF reason = CONNECT_SUCCESS
                            THEN "connected" ELSE "closed"]_vars

\* A CONNECT was rejected: its connection has been written a CONNACK with
\* a reason other than 0x00 and its handler is over.
C18_ConnectRejected ==
    \E c \in Conns :
        /\ pc[c] = "closed"
        /\ Len(written[c]) = 1
        /\ written[c][1].type = "CONNACK"
        /\ written[c][1].code # CONNECT_SUCCESS

\* The buffer of connection k in `out', the buffers as a handler leaves
\* them, is the buffer the handler found followed by the packets of `added'.
Appended(out, k, added) == out[k] = written[k] \o added

\* The packets of `out' behind what the buffer of k held.
Added(out, k) == SubSeq(out[k], Len(written[k]) + 1, Len(out[k]))

(***************************************************************************)
(* C19.  Per-subscriber FIFO.  The handler of a packet runs to its end     *)
(* before the next packet of any connection is handled, and whatever it    *)
(* writes to a connection is put behind all that earlier handlers wrote to *)
(* that connection: a PUBLISH processed later is behind every PUBLISH      *)
(* processed earlier in each subscriber's outbound stream, whoever         *)
(* published them, and the responses to the packets of one connection are  *)
(* in the order of these packets.  The event loop sends a buffer from its  *)
(* front.  The first part is about every step; the second is about what    *)
(* the handler of each packet a connection can read next leaves in the     *)
(* buffers.                                                                *)
(***************************************************************************)
C19_PerSubscriberFifo ==
    /\ [][\A k \in Conns :
            \/ /\ Len(written[k]) <= Len(written'[k])
               /\ SubSeq(written'[k], 1, Len(written[k])) = written[k]
            \/ Drain
            \/ Accept(k)]_vars
    /\ [](\A c \in Conns :
            Runs(c, {"connected"}) =>
                /\ \A t \in env.topics, m \in env.messages :
                       LET out == on_publish(Current, t, m, FALSE).out
                       IN  \A k \in Conns :
                               /\ Len(written[k]) <= Len(out[k])
                               /\ \A i \in 1..Len(Added(out, k)) :
                                      Added(out, k)[i] = Publish(t, m)
                /\ Appended(on_pingreq(Current, c, client_session[c]).out,
                            c, <<Pingresp>>)
                /\ \A topics \in FilterLists :
                       LET ls == on_subscribe(Current, c, client_session[c],
                                              topics)
                       IN  /\ ~ls.err
                           /\ Appended(ls.st.out, c,
                                  <<Suback([i \in 1..Len(topics) |->
                                               GRANTED_QOS_0])>>))

\* A subscriber that has not read yet holds, in its writer's buffer, the
\* PUBLISH with payload x that was processed first in front of the one
\* with payload y that was processed second.
C19_TwoPublishesBuffered ==
    \E k \in Conns :
        /\ pc[k] = "connected"
        /\ written[k] = <<Publish(T_ab, "x"), Publish(T_ab, "y")>>

\* The handler task of connection c has started and has neither ended nor
\* been cancelled.
Live(c) == pc[c] \in {"await", "connected"}

(***************************************************************************)
(* C20.  When the task of Broker.serve_forever is cancelled, every handler *)
(* task that is live at that moment is cancelled and the set of tracked    *)
(* tasks is left empty, and it stays empty; a cancelled handler handles no *)
(* further packet.  A handler task that ends on its own, by returning or   *)
(* by raising, is not in the set of tracked tasks afterwards.              *)
(***************************************************************************)
C20_CancellationPropagates ==
    [][/\ (serving /\ ~serving') =>
              /\ \A c \in Conns : Live(c) => pc'[c] = "cancelling"
              /\ client_tasks' = {}
       /\ ~serving => client_tasks' = {}
       /\ \A c \in Conns :
              /\ (Live(c) /\ pc'[c] \in {"closed", "raised"}) =>
                     c \notin client_tasks'
              /\ pc[c] \in {"cancelling", "cancelled"} =>
                     /\ pc'[c] \in {"cancelling", "cancelled"}
                     /\ written'[c] \in {written[c], <<>>}]_vars

\* The broker was cancelled while the handlers of two registered clients
\* were connected; both handler tasks have been cancelled and no task is
\* tracked.
C20_AllHandlersCancelled ==
    /\ ~serving
    /\ client_tasks = {}
    /\ \A c \in Conns : pc[c] = "cancelled"
    /\ sessions["c1"] # 0 /\ sessions["c2"] # 0
    /\ \A sid \in SessionIds : heap[sid].client # 0

(***************************************************************************)
(* C21.  A session with a non-zero expiry interval that has no connection  *)
(* is in the registry only while less than the interval has passed since   *)
(* its connection ended, and a CONNECT that comes when the interval has    *)
(* passed does not resume it (its CONNACK says that no session is          *)
(* present).                                                               *)
(***************************************************************************)
C21_SessionExpires ==
    [][/\ \A id \in env.ids :
            LET sid == sessions'[id]
            IN (sid # 0 /\ heap'[sid].client = 0
                /\ heap'[sid].expiry_interval # 0)
               => idle'[sid] < heap'[sid].expiry_interval
       /\ \A c \in Conns, id \in env.ids, mps \in env.mps,
             expiry \in env.expiry :
            (pc[c] = "await" /\ sessions[id] # 0
             /\ heap[sessions[id]].client = 0
             /\ heap[sessions[id]].expiry_interval # 0
             /\ idle[sessions[id]] >= heap[sessions[id]].expiry_interval
             /\ RecvConnect(c, id, FALSE, NoWill, mps, expiry, FALSE, FALSE))
            => written'[c] = <<Connack(FALSE, CONNECT_SUCCESS)>>]_vars

\* The expiry interval of a session has passed since its connection
\* ended, and the session, with the subscription it holds, is still in
\* the registry.
C21_ExpiredSessionKept ==
    \E sid \in SessionIds :
        /\ sessions["c1"] = sid
        /\ heap[sid].client = 0
        /\ heap[sid].expiry_interval = MaxIdle
        /\ idle[sid] = MaxIdle
        /\ heap[sid].subscriptions = {T_ab}
        /\ \A c \in Conns : pc[c] = "closed"

\* Session sid is in the registry.
Registered(sid) == \E id \in ClientIds : sessions[id] = sid

(***************************************************************************)
(* C22.  Every session that the literal or the wildcard subscription index *)
(* refers to is in the registry: a session leaves the registry together    *)
(* with the index entries that refer to it.                                *)
(***************************************************************************)
C22_IndexedSessionsRegistered ==
    /\ \A t \in DOMAIN subscribers :
           \A i \in 1..Len(subscribers[t]) : Registered(subscribers[t][i])
    /\ \A i \in 1..Len(wildcard_subscribers) :
           Registered(wildcard_subscribers[i][2])

\* Every connection has ended and the registry is empty, while the
\* literal index on a/b and the wildcard index still hold a session.
C22_RemovedSessionIndexed ==
    /\ \A c \in Conns : pc[c] = "closed"
    /\ \A id \in ClientIds : sessions[id] = 0
    /\ subscribers[T_ab] # <<>>
    /\ wildcard_subscribers # <<>>

(***************************************************************************)
(* The matcher on its own: a wildcard filter of a SUBSCRIBE is compiled by *)
(* compile_wildcards_topic (add_wildcard_subscriber) and the topic of a    *)
(* PUBLISH is matched against it (iter_subscribers).                       *)
(***************************************************************************)
MaxFilterLen == 3
MaxTopicLen == 4

\* Characters of filters and of topic names.  The dot and the line feed
\* are ordinary characters of MQTT strings.
FilterChars == {"a", ".", "/", "+", "#"}
TopicChars == {"a", "b", "/", "\n"}

Strings(chars, n) == UNION {[1..k -> chars] : k \in 1..n}

\* '+' and '#' occupy whole levels, and '#' the last one (MQTT 5, 4.7.1).
WellFormedFilter(f) ==
    LET fl == Levels(f) IN
    \A i \in 1..Len(fl) :
        /\ CharIn("+", fl[i]) => fl[i] = <<"+">>
        /\ CharIn("#", fl[i]) => fl[i] = <<"#">> /\ i = Len(fl)

\* The filters add_wildcard_subscriber compiles.
WildcardFilters ==
    {f \in Strings(FilterChars, MaxFilterLen) :
        is_wildcards_in_topic(f) /\ WellFormedFilter(f)}

MatchCalls ==
    {[kind |-> "match", filter |-> f, topic |-> t,
      done |-> FALSE, accepted |-> FALSE] :
        f \in WildcardFilters, t \in Strings(TopicChars, MaxTopicLen)}

InitMatch == InitState /\ env = EnvDelivery /\ unit \in MatchCalls

\* iter_subscribers tries the compiled filter on the topic.
MatchTopic ==
    /\ unit.kind = "match"
    /\ ~unit.done
    /\ unit' = [unit EXCEPT
                   !.done = TRUE,
                   !.accepted = Match(compile_wildcards_topic(unit.filter),
                                      unit.topic)]
    /\ UNCHANGED <<pc, client_session, written, heap, sessions, subscribers,
                   wildcard_subscribers, retained_messages, will_void, env,
                   client_tasks, serving, idle>>

NextMatch == MatchTopic

SpecMatch == InitMatch /\ [][NextMatch]_vars

\* The topic has as many levels as the filter and is equal to it at every
\* level that is not '+'.
SameLevels(filter, topic) ==
    LET fl == Levels(filter)
        tl == Levels(topic)
    IN /\ Len(fl) = Len(tl)
       /\ \A i \in 1..Len(fl) : fl[i] = <<"+">> \/ fl[i] = tl[i]

\* C23: for a filter whose wildcards are '+' at whole levels, the compiled
\* matcher accepts a topic iff the topic has the same number of levels and
\* is equal to the filter at every level that is not '+'.
C23_SingleLevelWildcard ==
    unit.kind = "match" /\ unit.done /\ ~CharIn("#", unit.filter)
        => (unit.accepted <=> SameLevels(unit.filter, unit.topic))

\* The filter ./+ has accepted the topic a/b.
C23_DotLevelAccepted ==
    /\ unit.kind = "match"
    /\ unit.done
    /\ unit.filter = <<".", "/", "+">>
    /\ unit.topic = <<"a", "/", "b">>
    /\ unit.accepted

\* The topic is P, or P followed by '/' and anything.
UnderPrefix(P, topic) ==
    \/ topic = P
    \/ /\ Len(topic) > Len(P)
       /\ SubSeq(topic, 1, Len(P) + 1) = P \o <<"/">>

\* C24: for a filter P/# the compiled matcher accepts a topic iff the
\* topic is P or begins with P followed by '/', and the filter # accepts
\* every topic.
C24_MultiLevelWildcard ==
    unit.kind = "match" /\ unit.done =>
        /\ unit.filter = <<"#">> => unit.accepted
        /\ \A P \in Strings(FilterChars \ {"+", "#"}, MaxFilterLen) :
               unit.filter = P \o <<"/", "#">>
                   => (unit.accepted <=> UnderPrefix(P, unit.topic))

\* The filter a/# has accepted the topic ab.
C24_CharacterPrefixAccepted ==
    /\ unit.kind = "match"
    /\ unit.done
    /\ unit.filter = <<"a", "/", "#">>
    /\ unit.topic = <<"a", "b">>
    /\ unit.accepted

(***************************************************************************)
(* The decoders of variable-length integers on their own:                  *)
(* unpack_variable_integer of the codec and the remaining-length field in  *)
(* Client.read_packet.  A byte is a number in 0..255; bit 0x80 says that   *)
(* another byte follows.                                                   *)
(***************************************************************************)
MaxBytes == 5

Bytes == {0, 1, 127, 128, 129, 255}

\* The encodings tried: up to MaxBytes bytes.  A fifth byte carries at
\* most 1 in its low bits (the decoded values stay below 2^31).
Encodings ==
    {s \in UNION {[1..n -> Bytes] : n \in 0..MaxBytes} :
        \A i \in 5..Len(s) : s[i] % 128 <= 1}

\* The loop of both decoders: add the low seven bits of each byte, stop
\* after a byte without bit 0x80.  `short' is the error of a read past the
\* end of the input.
RECURSIVE variable_integer_loop(_, _, _, _)
variable_integer_loop(input, value, multiplier, short) ==
    IF input = <<>> THEN [raised |-> short, value |-> 0]
    ELSE IF Head(input) \div 128 = 1
         THEN variable_integer_loop(Tail(input),
                                    value + (Head(input) % 128) * multiplier,
                                    multiplier * 128, short)
    ELSE [raised |-> "",
          value |-> value + (Head(input) % 128) * multiplier]

\* PayloadReader.read raises MalformedPacketError at the end of the
\* payload.
unpack_variable_integer(payload) ==
    variable_integer_loop(payload, 0, 1, "MalformedPacketError")

\* StreamReader.readexactly raises IncompleteReadError at the end of the
\* stream, also when fewer than `size' bytes of data follow (more = FALSE).
read_packet(stream, more) ==
    LET size == variable_integer_loop(stream, 0, 1, "IncompleteReadError")
    IN IF size.raised = "" /\ size.value > 0 /\ ~more
       THEN [raised |-> "IncompleteReadError", value |-> 0]
       ELSE size

DecodeCalls ==
    {[kind |-> "decode", input |-> s, more |-> m, by |-> "",
      raised |-> "", value |-> 0] : s \in Encodings, m \in BOOLEAN}

InitDecode == InitState /\ env = EnvDelivery /\ unit \in DecodeCalls

\* The codec decodes the input.
UnpackVariableInteger ==
    /\ unit.kind = "decode"
    /\ unit.by = ""
    /\ LET result == unpack_variable_integer(unit.input)
       IN unit' = [unit EXCEPT !.by = "codec", !.raised = result.raised,
                               !.value = result.value]
    /\ UNCHANGED <<pc, client_session, written, heap, sessions, subscribers,
                   wildcard_subscribers, retained_messages, will_void, env,
                   client_tasks, serving, idle>>

\* The framed reader reads the input after the first byte of a packet.
ReadPacket ==
    /\ unit.kind = "decode"
    /\ unit.by = ""
    /\ LET result == read_packet(unit.input, unit.more)
       IN unit' = [unit EXCEPT !.by = "reader", !.raised = result.raised,
                               !.value = result.value]
    /\ UNCHANGED <<pc, client_session, written, heap, sessions, subscribers,
                   wildcard_subscribers, retained_messages, will_void, env,
                   client_tasks, serving, idle>>

NextDecode == UnpackVariableInteger \/ ReadPacket

SpecDecode == InitDecode /\ [][NextDecode]_vars

\* The input goes on after four bytes with bit 0x80.
LongerThanFour(s) == Len(s) >= 5 /\ \A i \in 1..4 : s[i] \div 128 = 1

\* Every byte of the input has bit 0x80.
Unterminated(s) == \A i \in 1..Len(s) : s[i] \div 128 = 1

\* C25: decoding a variable-length integer fails with a malformed-packet
\* error for an encoding longer than four bytes and for an encoding that
\* does not end before the input does, and every value returned is at most
\* 268,435,455; in the codec and in the framed reader alike.
C25_VariableIntegerBounded ==
    unit.kind = "decode" /\ unit.by # "" =>
        /\ LongerThanFour(unit.input) \/ Unterminated(unit.input)
               => unit.raised = "MalformedPacketError"
        /\ unit.raised = "" => unit.value <= MAXIMUM_PACKET_SIZE

\* The codec has returned 268,435,456 for an encoding of five bytes.
C25_FiveBytesDecoded ==
    /\ unit.kind = "decode"
    /\ unit.by = "codec"
    /\ unit.input = <<128, 128, 128, 128, 1>>
    /\ unit.raised = ""
    /\ unit.value = MAXIMUM_PACKET_SIZE + 1

(***************************************************************************)
(* The client (client.py) on its own, against a broker that is part of     *)
(* the environment.  unit holds the fields of one Client object and the    *)
(* coroutines of its calls; env holds the inputs tried.                    *)
(*                                                                         *)
(* Every action is a run of one task between two awaits.  The model is of  *)
(* Python 3.8 and later, where CancelledError is no Exception.  QoS 2 is   *)
(* not among the inputs.                                                   *)
(***************************************************************************)
MaxOps == 2
MaxIds == 2
MaxStarts == 2
MaxInbound == 1

PUBACK_SUCCESS == 0
NO_MATCHING_SUBSCRIBERS == 16
\* alloc_packet_identifier starts again at 1 when it reaches 65536.
PACKET_IDENTIFIER_END == 65536
LAST_PACKET_IDENTIFIER == PACKET_IDENTIFIER_END - 1

\* Client(topic_aliases=['t', 'v']): _topic_aliases_init numbers the topics
\* from 1.  'u' is a topic without an alias.
TopicAliasesInit == <<"t", "v">>
ClientTopics == {"t", "v", "u"}
AliasOf(topic) ==
    IF \E i \in 1..Len(TopicAliasesInit) : TopicAliasesInit[i] = topic
    THEN CHOOSE i \in 1..Len(TopicAliasesInit) : TopicAliasesInit[i] = topic
    ELSE 0

\* The packet identifiers followed one by one: the first and the last
\* MaxIds of 1..65535.  The identifiers between them are used up by a run
\* of QoS 0 publishes (ClientPublishBurst).
IdWindow ==
    (1..MaxIds) \cup ((LAST_PACKET_IDENTIFIER - MaxIds + 1)..LAST_PACKET_IDENTIFIER)

Slots == 1..MaxOps

\* A packet the client writes.  alias 0 is no TopicAlias property.
Sent(type, topic, alias, reason) ==
    [type |-> type, topic |-> topic, alias |-> alias, reason |-> reason]

\* The coroutine of a call of subscribe() or publish() that has not
\* returned: its Transaction and where it waits.  at is "wait" while the
\* event of the Transaction is clear and "ready" once it is set.
FreeOp ==
    [call |-> "", topic |-> "", alias |-> 0, id |-> 0, conn |-> 0,
     at |-> "free", response |-> NoProp]

\* How the last call that ended has ended; allocated is the identifier
\* alloc_packet_identifier returned last since start(), 0 for none.
Outcome(call, id, raised) == [call |-> call, id |-> id, raised |-> raised]

\* Client.__init__.
NewClient ==
    [kind |-> "client", run |-> "new", conn |-> 0, link |-> "none",
     closed |-> FALSE, reader |-> "none", pinger |-> "none",
     pingresp |-> FALSE, next_id |-> 0,
     transactions |-> [id \in IdWindow |-> 0],
     ops |-> [s \in Slots |-> FreeOp],
     topic_alias_maximum |-> 0, topic_aliases |-> {}, registered |-> {},
     sent |-> {}, received |-> {}, messages |-> <<>>,
     allocated |-> 0, last |-> Outcome("", 0, "")]

\* packet_identifier in self.transactions
InTable(u, id) == id \in IdWindow /\ u.transactions[id] # 0

\* alloc_packet_identifier: the identifier or the Error, and the next
\* identifier.
alloc_packet_identifier(u) ==
    IF InTable(u, u.next_id)
    THEN [raised |-> "Error", id |-> 0, next |-> u.next_id]
    ELSE [raised |-> "", id |-> u.next_id,
          next |-> IF u.next_id + 1 = PACKET_IDENTIFIER_END THEN 1
                   ELSE u.next_id + 1]

\* Transaction.__exit__ and Transaction.set_completed: the entry of the
\* identifier is deleted, whichever Transaction it refers to.
Deleted(u, id) ==
    IF InTable(u, id) THEN [u.transactions EXCEPT ![id] = 0]
    ELSE u.transactions

\* _write_packet: a closed transport drops what is written.
Write(u, packet) == IF u.closed THEN u.sent ELSE u.sent \cup {packet}

Others ==
    <<pc, client_session, written, heap, sessions, subscribers,
      wildcard_subscribers, retained_messages, will_void, env,
      client_tasks, serving, idle>>

\* start() has returned and stop() has not been called.
Started == unit.kind = "client" /\ unit.run = "started"


\* The reader task may be given a packet of the broker.
Reading ==
    /\ unit.kind = "client"
    /\ unit.reader = "running"
    /\ unit.link = "up"
    /\ ~unit.closed

\* The lowest free slot for a coroutine.
FreeSlotOp(s) ==
    /\ unit.ops[s] = FreeOp
    /\ \A k \in Slots : k < s => unit.ops[k] # FreeOp

\* start(): every field is set anew, the connection is opened, the reader
\* task (and the keep alive task) created and CONNECT written.  Coroutines
\* of earlier calls go on.
ClientStart ==
    /\ unit.kind = "client"
    /\ unit.run \in {"new", "stopped"}
    /\ unit.conn < MaxStarts
    /\ unit' = [unit EXCEPT
                   !.run = "connecting",
                   !.conn = @ + 1,
                   !.link = "up",
                   !.closed = FALSE,
                   !.reader = "running",
                   !.pinger = IF env.keep_alive THEN "sleeping" ELSE "none",
                   !.pingresp = FALSE,
                   !.next_id = 1,
                   !.transactions = [id \in IdWindow |-> 0],
                   !.topic_alias_maximum = 0,
                   !.topic_aliases = {},
                   !.registered = {},
                   !.sent = {Sent("CONNECT", "", 0, 0)},
                   !.received = {},
                   !.messages = <<>>,
                   !.allocated = 0]
    /\ UNCHANGED Others

\* on_connack with CONNECT_SUCCESS and TopicAliasMaximum maximum, and
\* connect() going on behind it: the topics whose alias is within the
\* maximum keep it.
ClientConnack(maximum) ==
    /\ Reading
    /\ unit.run = "connecting"
    /\ unit' = [unit EXCEPT
                   !.run = "started",
                   !.received = @ \cup {"CONNACK"},
                   !.topic_alias_maximum = maximum,
                   !.topic_aliases =
                       {t \in ClientTopics :
                           AliasOf(t) # 0 /\ AliasOf(t) < maximum + 1}]
    /\ UNCHANGED Others

\* subscribe() up to its await: Transaction.__enter__ and SUBSCRIBE.
ClientSubscribe(s) ==
    /\ Started
    /\ "subscribe" \in env.calls
    /\ FreeSlotOp(s)
    /\ unit.next_id \in IdWindow
    /\ LET a == alloc_packet_identifier(unit)
       IN IF a.raised # ""
          THEN unit' = [unit EXCEPT
                           !.last = Outcome("subscribe", 0, a.raised)]
          ELSE unit' = [unit EXCEPT
                           !.next_id = a.next,
                           !.allocated = a.id,
                           !.transactions = [@ EXCEPT ![a.id] = s],
                           !.sent = Write(unit, Sent("SUBSCRIBE", "", 0, 0)),
                           !.ops = [@ EXCEPT ![s] =
                                       [call |-> "subscribe", topic |-> "",
                                        alias |-> 0, id |-> a.id,
                                        conn |-> unit.conn, at |-> "wait",
                                        response |-> NoProp]]]
    /\ UNCHANGED Others

\* publish(): the alias of the topic, and the empty topic once the alias
\* is registered.
AliasFor(topic) == IF topic \in unit.topic_aliases THEN AliasOf(topic) ELSE 0
TopicFor(topic) ==
    IF AliasFor(topic) # 0 /\ AliasFor(topic) \in unit.registered THEN ""
    ELSE topic

\* The end of publish(): the alias is registered after a full topic.
Registered_aliases(u, topic, alias) ==
    IF alias # 0 /\ topic # "" THEN u.registered \cup {alias}
    ELSE u.registered

\* publish(topic, message, 0): publish_qos_0 has no await.
ClientPublishQos0(topic) ==
    /\ Started
    /\ "publish_qos_0" \in env.calls
    /\ unit.next_id \in IdWindow
    /\ LET a == alloc_packet_identifier(unit)
       IN IF a.raised # ""
          THEN unit' = [unit EXCEPT !.last = Outcome("publish", 0, a.raised)]
          ELSE unit' = [unit EXCEPT
                           !.next_id = a.next,
                           !.allocated = a.id,
                           !.sent = Write(unit, Sent("PUBLISH", TopicFor(topic),
                                                     AliasFor(topic), 0)),
                           !.registered =
                               Registered_aliases(unit, TopicFor(topic),
                                                  AliasFor(topic)),
                           !.last = Outcome("publish", a.id, "")]
    /\ UNCHANGED Others

\* publish(topic, message, 1) up to the await of publish_qos_1.
ClientPublishQos1(s, topic) ==
    /\ Started
    /\ "publish_qos_1" \in env.calls
    /\ FreeSlotOp(s)
    /\ unit.next_id \in IdWindow
    /\ LET a == alloc_packet_identifier(unit)
       IN IF a.raised # ""
          THEN unit' = [unit EXCEPT !.last = Outcome("publish", 0, a.raised)]
          ELSE unit' = [unit EXCEPT
                           !.next_id = a.next,
                           !.allocated = a.id,
                           !.transactions = [@ EXCEPT ![a.id] = s],
                           !.sent = Write(unit, Sent("PUBLISH", TopicFor(topic),
                                                     AliasFor(topic), 0)),
                           !.ops = [@ EXCEPT ![s] =
                                       [call |-> "publish",
                                        topic |-> TopicFor(topic),
                                        alias |-> AliasFor(topic), id |-> a.id,
                                        conn |-> unit.conn, at |-> "wait",
                                        response |-> NoProp]]]
    /\ UNCHANGED Others

\* QoS 0 publishes of the topic 'u', one after the other, that use up the
\* identifiers between the first and the last MaxIds.
ClientPublishBurst ==
    /\ Started
    /\ "burst" \in env.calls
    /\ unit.next_id = MaxIds + 1
    /\ unit' = [unit EXCEPT
                   !.next_id = LAST_PACKET_IDENTIFIER - MaxIds + 1,
                   !.allocated = LAST_PACKET_IDENTIFIER - MaxIds,
                   !.sent = Write(unit, Sent("PUBLISH", "u", 0, 0)),
                   !.last = Outcome("publish", LAST_PACKET_IDENTIFIER - MaxIds,
                                    "")]
    /\ UNCHANGED Others

\* on_suback, on_puback, on_pubrec and on_pubcomp: the Transaction of the
\* identifier gets its response (None for SUBACK) and its event is set;
\* all but on_pubrec delete its entry.  A packet with another identifier is
\* discarded.
ClientAck(type, id, reason) ==
    /\ Reading
    /\ IF InTable(unit, id)
       THEN unit' = [unit EXCEPT
                        !.transactions =
                            IF type = "PUBREC" THEN @ ELSE Deleted(unit, id),
                        !.ops = [@ EXCEPT ![unit.transactions[id]] =
                                    [@ EXCEPT
                                        !.at = "ready",
                                        !.response =
                                            IF type = "SUBACK" THEN NoProp
                                            ELSE reason]]]
       ELSE UNCHANGED unit
    /\ UNCHANGED Others

\* The coroutine in slot s goes on behind wait_until_completed:
\* Transaction.__exit__, PublishError for a reason other than success and
\* no matching subscribers, else the end of publish().
ClientResume(s) ==
    /\ unit.kind = "client"
    /\ unit.ops[s].at = "ready"
    /\ LET op == unit.ops[s]
           ok == op.call = "subscribe"
                 \/ op.response \in {PUBACK_SUCCESS, NO_MATCHING_SUBSCRIBERS}
       IN unit' = [unit EXCEPT
                      !.transactions = Deleted(unit, op.id),
                      !.ops = [@ EXCEPT ![s] = FreeOp],
                      !.registered =
                          IF ok /\ op.call = "publish"
                          THEN Registered_aliases(unit, op.topic, op.alias)
                          ELSE @,
                      !.last = Outcome(op.call, op.id,
                                       IF ok THEN "" ELSE "PublishError")]
    /\ UNCHANGED Others

\* wait_for gives up after response_timeout: TimeoutError leaves the with
\* block through Transaction.__exit__.
ClientTimeout(s) ==
    /\ unit.kind = "client"
    /\ unit.ops[s].at = "wait"
    /\ unit' = [unit EXCEPT
                   !.transactions = Deleted(unit, unit.ops[s].id),
                   !.ops = [@ EXCEPT ![s] = FreeOp],
                   !.last = Outcome(unit.ops[s].call, unit.ops[s].id,
                                    "TimeoutError")]
    /\ UNCHANGED Others

\* on_publish of the reader task: a PUBLISH of QoS 0 is put on messages,
\* a malformed one is discarded.
ClientOnPublish(packet) ==
    /\ Reading
    /\ Started
    /\ packet = "PUBLISH" => Len(unit.messages) < MaxInbound
    /\ unit' = [unit EXCEPT
                   !.received = @ \cup {packet},
                   !.messages = IF packet = "PUBLISH" THEN Append(@, "message")
                                ELSE @]
    /\ UNCHANGED Others

\* The broker closes the connection (a DISCONNECT before it is an
\* unsupported packet to reader_loop, which logs it and reads on).
BrokerCloses ==
    /\ unit.kind = "client"
    /\ env.closes
    /\ unit.run = "started"
    /\ unit.link = "up"
    /\ unit' = [unit EXCEPT !.link = "eof"]
    /\ UNCHANGED Others

\* reader_main that closes the writer and puts nothing on messages.
ReaderMainSilent ==
    /\ unit.kind = "client"
    /\ unit.reader = "running"
    /\ unit.link = "eof" \/ unit.closed
    /\ unit' = [unit EXCEPT !.closed = TRUE, !.reader = "done"]
    /\ UNCHANGED Others

\* reader_main: readexactly raises IncompleteReadError at the end of the
\* stream, also after the writer was closed; the writer is closed and the
\* (None, None) put on messages.
ReaderMainFails ==
    /\ unit.kind = "client"
    /\ unit.reader = "running"
    /\ unit.link = "eof" \/ unit.closed
    /\ unit' = [unit EXCEPT
                   !.closed = TRUE,
                   !.reader = "done",
                   !.messages = Append(@, "None")]
    /\ UNCHANGED Others

\* keep_alive_loop after its sleep: PINGREQ.
KeepAlivePing ==
    /\ unit.kind = "client"
    /\ unit.pinger = "sleeping"
    /\ unit' = [unit EXCEPT
                   !.pingresp = FALSE,
                   !.pinger = "waiting",
                   !.sent = Write(unit, Sent("PINGREQ", "", 0, 0))]
    /\ UNCHANGED Others

\* on_pingresp of the reader task.
ClientOnPingresp ==
    /\ Reading
    /\ unit.pinger = "waiting"
    /\ ~unit.pingresp
    /\ unit' = [unit EXCEPT !.pingresp = TRUE]
    /\ UNCHANGED Others

\* keep_alive_loop behind its wait_for: the event was set.
KeepAliveResume ==
    /\ unit.kind = "client"
    /\ unit.pinger = "waiting"
    /\ unit.pingresp
    /\ unit' = [unit EXCEPT !.pinger = "sleeping"]
    /\ UNCHANGED Others

\* keep_alive_main: no PINGRESP within response_timeout; the writer is
\* closed and the (None, None) put on messages.
KeepAliveTimeout ==
    /\ unit.kind = "client"
    /\ unit.pinger = "waiting"
    /\ ~unit.pingresp
    /\ unit' = [unit EXCEPT
                   !.closed = TRUE,
                   !.pinger = "done",
                   !.messages = Append(@, "None")]
    /\ UNCHANGED Others

\* stop(): DISCONNECT, then the reader task is cancelled and awaited.  The
\* CancelledError of a task that was running leaves stop() at once; only
\* with both tasks over is the writer closed.
ClientStop ==
    /\ Started
    /\ "stop" \in env.calls
    /\ unit' = [unit EXCEPT
                   !.run = "stopped",
                   !.sent = Write(unit, Sent("DISCONNECT", "", 0,
                                             NORMAL_DISCONNECTION)),
                   !.reader = IF @ = "running" THEN "cancelled" ELSE @,
                   !.pinger = IF unit.reader # "running"
                                 /\ @ \in {"sleeping", "waiting"}
                              THEN "cancelled" ELSE @,
                   !.closed = IF unit.reader # "running"
                                 /\ unit.pinger \notin {"sleeping", "waiting"}
                              THEN TRUE ELSE @,
                   !.last = Outcome("stop", 0,
                                    IF unit.reader = "running"
                                       \/ unit.pinger \in {"sleeping", "waiting"}
                                    THEN "CancelledError" ELSE "")]
    /\ UNCHANGED Others

\* The inputs tried for the transactions: calls of subscribe() and of
\* publish() with QoS 0, SUBACK and PUBACK packets, stop() and start().
EnvIds ==
    [calls |-> {"subscribe", "publish_qos_0", "burst", "stop"},
     topics |-> {"u"},
     alias_max |-> {0},
     acks |-> {"SUBACK", "PUBACK"},
     reasons |-> {PUBACK_SUCCESS},
     inbound |-> {},
     keep_alive |-> FALSE,
     closes |-> FALSE]

NextIds ==
    \/ ClientStart
    \/ \E maximum \in env.alias_max : ClientConnack(maximum)
    \/ \E s \in Slots : ClientSubscribe(s)
    \/ \E topic \in env.topics : ClientPublishQos0(topic)
    \/ ClientPublishBurst
    \/ \E type \in env.acks, id \in IdWindow, reason \in env.reasons :
           ClientAck(type, id, reason)
    \/ \E s \in Slots : ClientResume(s)
    \/ \E s \in Slots : ClientTimeout(s)
    \/ ClientStop

InitIds == InitState /\ env = EnvIds /\ unit = NewClient

SpecIds == InitIds /\ [][NextIds]_vars

\* A transaction of the connection in use that waits for its response.
PendingOp(u, s) == u.ops[s].at = "wait" /\ u.ops[s].conn = u.conn

\* C26: alloc_packet_identifier returns no identifier of a transaction
\* that is pending on the connection, every identifier it returns is in
\* 1..65535, the first one after start() is 1 and the one after 65535 is
\* 1; no two pending transactions of the connection share an identifier.
C26_PacketIdentifiersUnique ==
    [][unit.kind = "client" /\ unit'.kind = "client" =>
          /\ unit'.allocated # unit.allocated /\ unit'.allocated # 0 =>
                 /\ unit'.allocated \in 1..LAST_PACKET_IDENTIFIER
                 /\ unit.allocated = 0 => unit'.allocated = 1
                 /\ unit.allocated = LAST_PACKET_IDENTIFIER
                        => unit'.allocated = 1
                 /\ \A s \in Slots :
                        PendingOp(unit, s) => unit.ops[s].id # unit'.allocated
          /\ \A s, k \in Slots :
                 s # k /\ PendingOp(unit', s) /\ PendingOp(unit', k)
                     => unit'.ops[s].id # unit'.ops[k].id]_vars

\* Two calls of subscribe() wait on the connection with the identifier 1.
C26_TwoPendingShareIdentifier ==
    /\ unit.kind = "client"
    /\ \A s \in Slots : PendingOp(unit, s) /\ unit.ops[s].id = 1

\* C27: subscribe() makes a pending transaction when it writes SUBSCRIBE;
\* the transaction is resolved only by a SUBACK with its identifier or by
\* the response timeout; a SUBACK whose identifier is not in the table
\* leaves the table as it is; once subscribe() has returned or raised, the
\* table holds no entry for its transaction.
C27_SubscribeTransaction ==
    [][unit.kind = "client" /\ unit'.kind = "client" =>
          \A s \in Slots :
              LET op == unit.ops[s]
                  after == unit'.ops[s]
              IN /\ op.at = "free" /\ after.call = "subscribe"
                     => after.at = "wait" /\ unit'.transactions[after.id] = s
                 /\ op.call = "subscribe" /\ op.at = "wait" /\ after.at # "wait"
                     => \/ \E reason \in env.reasons :
                               ClientAck("SUBACK", op.id, reason)
                        \/ ClientTimeout(s)
                 /\ op.call = "subscribe" /\ after.at = "free"
                     => \A id \in IdWindow : unit'.transactions[id] # s
                 /\ \A id \in IdWindow :
                        /\ ~InTable(unit, id)
                        /\ \E reason \in env.reasons :
                               ClientAck("SUBACK", id, reason)
                        => unit'.transactions = unit.transactions]_vars

\* A PUBACK has resolved the transaction of a subscribe().
C27_SubscribeResolvedByPuback ==
    /\ unit.kind = "client"
    /\ \E s \in Slots :
           /\ unit.ops[s].call = "subscribe"
           /\ unit.ops[s].at = "ready"
           /\ unit.ops[s].response = PUBACK_SUCCESS

\* The inputs tried for the topic aliases: publishes with QoS 0 and 1 of an
\* aliased topic within the broker's maximum ('t'), of one beyond it ('v')
\* and of one without alias ('u'); PUBACK packets; stop() and start().
EnvAlias ==
    [calls |-> {"publish_qos_0", "publish_qos_1", "stop"},
     topics |-> ClientTopics,
     alias_max |-> {1},
     acks |-> {"PUBACK"},
     reasons |-> {PUBACK_SUCCESS, UNSPECIFIED_ERROR},
     inbound |-> {},
     keep_alive |-> FALSE,
     closes |-> FALSE]

NextAlias ==
    \/ ClientStart
    \/ \E maximum \in env.alias_max : ClientConnack(maximum)
    \/ \E topic \in env.topics : ClientPublishQos0(topic)
    \/ \E s \in Slots, topic \in env.topics : ClientPublishQos1(s, topic)
    \/ \E type \in env.acks, id \in IdWindow, reason \in env.reasons :
           ClientAck(type, id, reason)
    \/ \E s \in Slots : ClientResume(s)
    \/ \E s \in Slots : ClientTimeout(s)
    \/ ClientStop

InitAlias == InitState /\ env = EnvAlias /\ unit = NewClient

SpecAlias == InitAlias /\ [][NextAlias]_vars

\* The alias configured for the topic is within the TopicAliasMaximum of
\* the connection.
UsableAlias(topic) ==
    AliasOf(topic) # 0 /\ AliasOf(topic) <= unit.topic_alias_maximum

\* A PUBLISH with the alias has been written on the connection.
AliasSent(alias) ==
    \E p \in unit.sent : p.type = "PUBLISH" /\ p.alias = alias

\* C28: the first PUBLISH of a topic with a usable alias on a connection
\* carries the full topic and the alias, every later one the empty topic
\* and the alias; no PUBLISH with the empty topic and an alias is written
\* on a connection before one with the full topic and that alias, also
\* after stop() and start(); a topic without usable alias is written in
\* full and without alias.
C28_TopicAliases ==
    [][unit.kind = "client" /\ unit'.kind = "client" =>
          \A topic \in env.topics :
              (/\ \/ ClientPublishQos0(topic)
                  \/ \E s \in Slots : ClientPublishQos1(s, topic)
               /\ unit'.allocated # unit.allocated)
              => /\ UsableAlias(topic) /\ ~AliasSent(AliasOf(topic))
                     => Sent("PUBLISH", topic, AliasOf(topic), 0) \in unit'.sent
                 /\ UsableAlias(topic) /\ AliasSent(AliasOf(topic))
                     => unit'.sent = unit.sent
                                     \cup {Sent("PUBLISH", "", AliasOf(topic), 0)}
                 /\ \A p \in unit'.sent :
                        p.type = "PUBLISH" /\ p.topic = "" /\ p.alias # 0
                            => Sent("PUBLISH", topic, p.alias, 0) \in unit.sent
                 /\ ~UsableAlias(topic)
                     => unit'.sent = unit.sent
                                     \cup {Sent("PUBLISH", topic, 0, 0)}]_vars

\* On the connection in use a PUBLISH with the empty topic and the alias 1
\* has been written, and none with the topic 't'.
C28_EmptyTopicBeforeFullTopic ==
    /\ unit.kind = "client"
    /\ Sent("PUBLISH", "", 1, 0) \in unit.sent
    /\ Sent("PUBLISH", "t", 1, 0) \notin unit.sent

\* The inputs tried for the loss of the connection: a client with keep
\* alive that subscribes; the broker sends SUBACK and PUBLISH packets,
\* well-formed or not, answers PINGREQ or does not, and closes the
\* connection or does not.
EnvLoss ==
    [calls |-> {"subscribe"},
     topics |-> {},
     alias_max |-> {0},
     acks |-> {"SUBACK"},
     reasons |-> {PUBACK_SUCCESS},
     inbound |-> {"PUBLISH", "MALFORMED_PUBLISH"},
     keep_alive |-> TRUE,
     closes |-> TRUE]

NextLoss ==
    \/ ClientStart
    \/ \E maximum \in env.alias_max : ClientConnack(maximum)
    \/ \E s \in Slots : ClientSubscribe(s)
    \/ \E type \in env.acks, id \in IdWindow, reason \in env.reasons :
           ClientAck(type, id, reason)
    \/ \E s \in Slots : ClientResume(s)
    \/ \E s \in Slots : ClientTimeout(s)
    \/ \E packet \in env.inbound : ClientOnPublish(packet)
    \/ BrokerCloses
    \/ ReaderMainFails
    \/ KeepAlivePing
    \/ ClientOnPingresp
    \/ KeepAliveResume
    \/ KeepAliveTimeout

InitLoss == InitState /\ env = EnvLoss /\ unit = NewClient

SpecLoss == InitLoss /\ [][NextLoss]_vars

\* The event loop runs a task that is ready, and the timer of wait_for
\* fires.
SpecLossFair ==
    SpecLoss /\ WF_vars(ReaderMainFails) /\ WF_vars(KeepAliveTimeout)

\* The writer is closed and (None, None) is on the message stream.
Signalled ==
    /\ unit.kind = "client"
    /\ unit.closed
    /\ \E i \in 1..Len(unit.messages) : unit.messages[i] = "None"

\* C29: when the broker has closed the connection of a started client
\* (with or without a DISCONNECT before), the connection is closed and
\* (None, None) is eventually put on the message stream; a wait for
\* PINGRESP ends with the PINGRESP or in the same way.
C29_ConnectionLossSignalled ==
    /\ (unit.kind = "client" /\ unit.link = "eof") ~> Signalled
    /\ (unit.kind = "client" /\ unit.pinger = "waiting")
           ~> (unit.pingresp \/ Signalled)

\* The broker has closed the connection and the client has signalled it.
C29_LossSignalled ==
    /\ Signalled
    /\ unit.link = "eof"
    /\ unit.reader = "done"

\* C30: when the client is given a malformed PUBLISH it writes DISCONNECT
\* with reason 0x81, closes the connection and puts (None, None) on the
\* message stream.
C30_MalformedPublishDisconnects ==
    [][unit.kind = "client" /\ ClientOnPublish("MALFORMED_PUBLISH")
          /\ "MALFORMED_PUBLISH" \notin unit.received
          => /\ Sent("DISCONNECT", "", 0, MALFORMED_PACKET) \in unit'.sent
             /\ unit'.closed
             /\ \E i \in 1..Len(unit'.messages) :
                    unit'.messages[i] = "None"]_vars

\* A malformed PUBLISH has been handled; the connection is open, nothing
\* but CONNECT was written and the message stream is empty.
C30_MalformedPublishDiscarded ==
    /\ unit.kind = "client"
    /\ "MALFORMED_PUBLISH" \in unit.received
    /\ ~unit.closed
    /\ unit.sent = {Sent("CONNECT", "", 0, 0)}
    /\ unit.messages = <<>>

\* ---------------------------------------------------------------------
\* BrokerThread (broker.py, 554-606): a Broker on an event loop of its
\* own, in a daemon thread.  `unit' is the BrokerThread object together
\* with the position of the thread that calls start() and stop():
\*   thread   "new", "started" (Thread.start() has returned, run() has not
\*            yet assigned _running), "loop" (run_until_complete) or
\*            "done";
\*   running  _running;
\*   task     _broker_task: "pending", "cancelled" or "failed" (OSError of
\*            start_server);
\*   posted   cancel_broker_task is queued on the loop;
\*   closed   the loop is closed;
\*   caller   "idle", "posting" (in stop(), before call_soon_threadsafe)
\*            or "joining";
\*   last     how the last stop() ended: "NotRunningError", "RuntimeError"
\*            (call_soon_threadsafe on a closed loop) or "returned".
\* `serving' says that the listener accepts connections.

\* BrokerThread.__init__.
NewThread ==
    [kind |-> "thread", thread |-> "new", running |-> FALSE,
     task |-> "pending", posted |-> FALSE, closed |-> FALSE,
     caller |-> "idle", last |-> ""]

\* One client that connects, subscribes to a/b, publishes and disconnects.
EnvThread == [EnvCancel EXCEPT !.ids = {"c1"}]

\* The object is constructed; nothing listens before run() has started
\* the server.
InitThread ==
    /\ pc = [c \in Conns |-> "closed"]
    /\ client_session = [c \in Conns |-> 0]
    /\ written = [c \in Conns |-> <<>>]
    /\ heap = [sid \in SessionIds |-> FreeSlot]
    /\ will_void = [sid \in SessionIds |-> FALSE]
    /\ sessions = [id \in ClientIds |-> 0]
    /\ subscribers = [t \in LiteralFilters |-> <<>>]
    /\ wildcard_subscribers = <<>>
    /\ retained_messages = <<>>
    /\ client_tasks = {}
    /\ serving = FALSE
    /\ idle = [sid \in SessionIds |-> 0]
    /\ env = EnvThread
    /\ unit = NewThread

\* Thread.start(): returns once the new thread has set its started event,
\* which _bootstrap_inner does before it calls run().
ThreadStart ==
    /\ unit.kind = "thread"
    /\ unit.caller = "idle"
    /\ unit.thread = "new"
    /\ unit' = [unit EXCEPT !.thread = "started"]
    /\ UNCHANGED Others

\* run(): _running = True, then run_until_complete(_broker_task).
ThreadRun ==
    /\ unit.kind = "thread"
    /\ unit.thread = "started"
    /\ unit' = [unit EXCEPT !.thread = "loop", !.running = TRUE]
    /\ UNCHANGED Others

\* The broker task has not yet got its listener.
Binding ==
    /\ unit.kind = "thread"
    /\ unit.thread = "loop"
    /\ unit.task = "pending"
    /\ ~serving
    /\ \A c \in Conns : pc[c] = "closed"

\* Server.serve_forever: start_server returns the listener.
ServerListens ==
    /\ Binding
    /\ serving' = TRUE
    /\ UNCHANGED <<pc, client_session, written, heap, sessions, subscribers,
                   wildcard_subscribers, retained_messages, will_void, env,
                   client_tasks, idle, unit>>

\* Server.serve_forever: start_server raises OSError (the address is in
\* use), which ends the broker task; _run catches CancelledError only.
ServerBindFails ==
    /\ Binding
    /\ unit' = [unit EXCEPT !.task = "failed"]
    /\ UNCHANGED Others

\* stop(): NotRunningError unless _running, which is cleared.
ThreadStop ==
    /\ unit.kind = "thread"
    /\ unit.caller = "idle"
    /\ unit' = IF unit.running
               THEN [unit EXCEPT !.running = FALSE, !.caller = "posting",
                                 !.last = ""]
               ELSE [unit EXCEPT !.last = "NotRunningError"]
    /\ UNCHANGED Others

\* stop(): call_soon_threadsafe(cancel_broker_task), which raises
\* RuntimeError on a closed loop, then join().
ThreadPost ==
    /\ unit.kind = "thread"
    /\ unit.caller = "posting"
    /\ unit' = IF unit.closed
               THEN [unit EXCEPT !.caller = "idle", !.last = "RuntimeError"]
               ELSE [unit EXCEPT !.caller = "joining", !.posted = TRUE]
    /\ UNCHANGED Others

\* The loop runs cancel_broker_task: CancelledError goes through _run and
\* gather into Server.serve_forever, which closes the listener, and
\* Broker.serve_forever cancels every task of _client_tasks; _run
\* swallows the CancelledError.
BrokerTaskCancelled ==
    /\ unit.kind = "thread"
    /\ unit.thread = "loop"
    /\ unit.posted
    /\ unit.task = "pending"
    /\ Drained
    /\ unit' = [unit EXCEPT !.task = "cancelled", !.posted = FALSE]
    /\ serving' = FALSE
    /\ pc' = [c \in Conns |->
                 IF c \in client_tasks THEN "cancelling" ELSE pc[c]]
    /\ client_tasks' = {}
    /\ UNCHANGED <<client_session, written, heap, sessions, subscribers,
                   wildcard_subscribers, retained_messages, will_void, env,
                   idle>>

\* run(): run_until_complete returns or raises once the broker task is
\* done, the handlers cancelled with it having run; the loop is closed
\* and the thread ends.
ThreadExits ==
    /\ unit.kind = "thread"
    /\ unit.thread = "loop"
    /\ unit.task # "pending"
    /\ \A c \in Conns : pc[c] # "cancelling"
    /\ unit' = [unit EXCEPT !.thread = "done", !.closed = TRUE,
                            !.posted = FALSE]
    /\ UNCHANGED Others

\* stop(): join() returns.
ThreadJoin ==
    /\ unit.kind = "thread"
    /\ unit.caller = "joining"
    /\ unit.thread = "done"
    /\ unit' = [unit EXCEPT !.caller = "idle", !.last = "returned"]
    /\ UNCHANGED Others

\* The loop of the thread runs the broker.
ThreadServes ==
    /\ unit.kind = "thread"
    /\ unit.thread = "loop"
    /\ unit.task = "pending"
    /\ Next

NextThread ==
    \/ ThreadStart
    \/ ThreadRun
    \/ ServerListens
    \/ ServerBindFails
    \/ ThreadStop
    \/ ThreadPost
    \/ BrokerTaskCancelled
    \/ ThreadExits
    \/ ThreadJoin
    \/ ThreadServes
    \/ \E c \in Conns : unit.thread = "loop" /\ HandlerCancelled(c)

SpecThread == InitThread /\ [][NextThread]_vars

\* The operating system runs both threads and the event loop runs what is
\* ready; its callbacks run in the order they were queued, so that the
\* handlers cannot overtake cancel_broker_task for ever.
SpecThreadFair ==
    /\ SpecThread
    /\ WF_vars(ThreadRun)
    /\ WF_vars(ThreadPost)
    /\ WF_vars(Drain)
    /\ SF_vars(BrokerTaskCancelled)
    /\ WF_vars(\E c \in Conns : unit.thread = "loop" /\ HandlerCancelled(c))
    /\ WF_vars(ThreadExits)
    /\ WF_vars(ThreadJoin)

\* The thread of the broker runs: start() has been called and run() has
\* not ended.
ThreadRunning == unit.thread \in {"started", "loop"}

\* C31: stop() raises NotRunningError exactly when the broker thread is
\* not running; a stop() of a running broker thread goes on to post the
\* cancellation, after which the broker task is cancelled, the thread has
\* ended, the listener accepts no connection and stop() has returned.
C31_StopContract ==
    /\ [][ThreadStop =>
              /\ (unit'.last = "NotRunningError") <=> ~ThreadRunning
              /\ ThreadRunning => unit'.caller = "posting"]_vars
    /\ (unit.kind = "thread" /\ unit.caller = "posting")
           ~> (/\ unit.task = "cancelled"
               /\ unit.thread = "done"
               /\ ~serving
               /\ unit.last = "returned")

\* stop() has raised NotRunningError although start() had returned and
\* the thread of the broker goes on to serve.
C31_StopRefusedWhileRunning ==
    /\ unit.kind = "thread"
    /\ unit.last = "NotRunningError"
    /\ unit.thread = "loop"
    /\ unit.running
    /\ serving
    /\ \E c \in Conns : pc[c] = "connected"

\* Two clients, with or without a retained will on a/b whose payload is
\* not the one they publish; a session may limit the packet size to 3
\* bytes, less than a DISCONNECT takes.  The PUBLISH packets the broker
\* rejects have the retain flag set, the others have not.
EnvReject ==
    [EnvAll EXCEPT !.clean = {FALSE},
                   !.wills = {NoWill,
                              [topic |-> T_ab, message |-> "y",
                               retain |-> TRUE]},
                   !.mps = {NoProp, 3}, !.expiry = {NoProp},
                   !.auth = {FALSE}, !.cred = {FALSE},
                   !.filters = {T_ab}, !.topics = {T_ab},
                   !.messages = {"x"}, !.retain = {TRUE}]

InitReject == InitBroker /\ env = EnvReject

\* The packets of clients that connect, subscribe, publish and disconnect.
StepReject(c) ==
    \/ Accept(c)
    \/ \E client_id \in env.ids, will \in env.wills, mps \in env.mps :
           RecvConnect(c, client_id, FALSE, will, mps, NoProp, FALSE, FALSE)
    \/ \E topics \in FilterLists : RecvSubscribe(c, topics)
    \/ \E topic \in env.topics, message \in env.messages :
           RecvPublish(c, topic, message, FALSE)
    \/ \E topic \in env.topics \cup BadPubTopics, message \in env.messages,
          retain \in env.retain, qos \in 0..1 :
           RecvBadPublish(c, topic, message, retain, qos)
    \/ RecvDisconnect(c, NORMAL_DISCONNECTION)

NextReject == Drain \/ \E c \in Conns : StepReject(c)

SpecReject == InitReject /\ [][NextReject]_vars

(***************************************************************************)
(* C32, as claimed.  A PUBLISH whose topic contains '+' or '#', or whose   *)
(* QoS is greater than 0, makes the handler write a DISCONNECT with reason *)
(* 0x81 and end; the retained store stays as it was, also when the retain  *)
(* flag is set, and no PUBLISH is written to any connection.               *)
(***************************************************************************)
C32_BadPublishRejected ==
    [][\A c \in Conns :
         \A topic \in env.topics \cup BadPubTopics,
            message \in env.messages, retain \in env.retain, qos \in 0..1 :
             (pc[c] = "connected" /\ Over(c)
              /\ RecvBadPublish(c, topic, message, retain, qos)) =>
                 /\ Over(c)
                 /\ written'[c] = <<Disconnect(MALFORMED_PACKET)>>
                 /\ retained_messages' = retained_messages
                 /\ \A k \in Conns \ {c} : written'[k] = <<>>]_vars

(***************************************************************************)
(* C32, amended.  A PUBLISH whose topic contains '+' or '#', or whose QoS  *)
(* is greater than 0, ends the handler; a DISCONNECT with reason 0x81 is   *)
(* written unless it exceeds the session's maximum packet size.  The       *)
(* PUBLISH itself is neither stored nor written to any connection,         *)
(* whatever its retain flag: the retained store and the other connections  *)
(* get nothing but the will of the session, whose connection ended         *)
(* abnormally.                                                             *)
(***************************************************************************)
C32_BadPublishWithoutEffect ==
    [][\A c \in Conns :
         \A topic \in env.topics \cup BadPubTopics,
            message \in env.messages, retain \in env.retain, qos \in 0..1 :
             (pc[c] = "connected" /\ Over(c)
              /\ RecvBadPublish(c, topic, message, retain, qos)) =>
                 /\ Over(c)
                 /\ WrittenIfFits(c, Disconnect(MALFORMED_PACKET))
                 /\ IF heap[client_session[c]].will_topic # NoTopic
                    THEN /\ WillStored(c)
                         /\ \A k \in Conns \ {c} :
                                written'[k] \in {<<>>, <<WillOf(c)>>}
                    ELSE /\ retained_messages' = retained_messages
                         /\ \A k \in Conns \ {c} : written'[k] = <<>>]_vars

\* A connection without a will that was connected beside a subscriber of
\* a/b has been written a DISCONNECT with reason 0x81 and its handler is
\* over; the subscriber was written nothing and nothing is retained.
C32_BadPublishSent ==
    \E c, k \in Conns :
        /\ pc[c] = "closed"
        /\ written[c] = <<Disconnect(MALFORMED_PACKET)>>
        /\ pc[k] = "connected"
        /\ heap[client_session[k]].subscriptions = {T_ab}
        /\ heap[client_session[k]].client = k
        /\ written[k] = <<>>
        /\ retained_messages = <<>>

\* Two clients whose CONNECT may carry a retained will on a/b, a session
\* expiry interval, clean-start and an AuthenticationMethod property.
EnvRefuse ==
    [EnvAll EXCEPT !.wills = {NoWill,
                              [topic |-> T_ab, message |-> "x",
                               retain |-> TRUE]},
                   !.mps = {NoProp}, !.cred = {FALSE},
                   !.filters = {T_ab}, !.topics = {T_ab},
                   !.messages = {"x"}, !.retain = {FALSE}]

\* The packets of clients that connect, subscribe and disconnect.
StepRefuse(c) ==
    \/ Accept(c)
    \/ \E client_id \in env.ids, clean_start \in env.clean,
          will \in env.wills, expiry \in env.expiry, auth \in env.auth :
           RecvConnect(c, client_id, clean_start, will, NoProp, expiry,
                       auth, FALSE)
    \/ \E topics \in FilterLists : RecvSubscribe(c, topics)
    \/ RecvDisconnect(c, NORMAL_DISCONNECTION)

NextRefuse == Drain \/ \E c \in Conns : StepRefuse(c)

InitRefuse == InitBroker /\ env = EnvRefuse

SpecRefuse == InitRefuse /\ [][NextRefuse]_vars

(***************************************************************************)
(* C33.  A CONNECT that the broker answers with a CONNACK other than 0x00  *)
(* changes nothing that others can see: the sessions, their bindings to    *)
(* connections, the registry, the subscription index and the retained      *)
(* store are as they were, and no other connection is written anything     *)
(* (no will is published).                                                 *)
(***************************************************************************)
C33_RejectedConnectWithoutEffect ==
    [][\A c \in Conns :
         \A client_id \in env.ids, clean_start \in env.clean,
            will \in env.wills, expiry \in env.expiry :
             (pc[c] = "await" /\ Over(c)
              /\ RecvConnect(c, client_id, clean_start, will, NoProp,
                             expiry, TRUE, FALSE)) =>
                 /\ UNCHANGED <<heap, sessions, client_session, subscribers,
                                wildcard_subscribers, retained_messages>>
                 /\ \A k \in Conns \ {c} : written'[k] = <<>>]_vars

\* A CONNECT with clean-start and a retained will was rejected with
\* CONNACK 0x8C; the subscriber that used the client id, still connected,
\* has lost its session and its subscription, and the will is in the
\* retained store.
C33_RejectedConnectCleanedSession ==
    \E c, k \in Conns :
        /\ pc[c] = "closed"
        /\ written[c] = <<Connack(FALSE, BAD_AUTHENTICATION_METHOD)>>
        /\ pc[k] = "connected"
        /\ heap[client_session[k]].client_id = "c1"
        /\ heap[client_session[k]].client = 0
        /\ heap[client_session[k]].subscriptions = {}
        /\ sessions["c1"] = 0
        /\ retained_messages = <<<<T_ab, "x">>>>

\* Two clients whose sessions outlive their connections and carry a
\* retained will on a/b.
EnvLeave ==
    [EnvAll EXCEPT !.clean = {FALSE},
                   !.wills = {[topic |-> T_ab, message |-> "x",
                               retain |-> TRUE]},
                   !.mps = {NoProp}, !.expiry = {10},
                   !.auth = {FALSE}, !.cred = {FALSE},
                   !.filters = {T_ab}, !.topics = {T_ab},
                   !.messages = {"x"}, !.retain = {FALSE}]

\* The packets of clients that connect, subscribe, unsubscribe and leave
\* with a DISCONNECT or without one.
StepLeave(c) ==
    \/ Accept(c)
    \/ \E client_id \in env.ids, will \in env.wills, expiry \in env.expiry :
           RecvConnect(c, client_id, FALSE, will, NoProp, expiry, FALSE,
                       FALSE)
    \/ \E topics \in FilterLists : RecvSubscribe(c, topics)
    \/ \E topics \in FilterLists : RecvUnsubscribe(c, topics)
    \/ RecvPingreq(c)
    \/ \E reason \in DisconnectReasons : RecvDisconnect(c, reason)
    \/ RecvEOF(c)

NextLeave == Drain \/ \E c \in Conns : StepLeave(c)

InitLeave == InitBroker /\ env = EnvLeave

SpecLeave == InitLeave /\ [][NextLeave]_vars

(***************************************************************************)
(* C34.  When a client whose session carries a will sends a DISCONNECT     *)
(* with a reason other than 0x00, the will is written to every session     *)
(* that has a connection and a matching subscription, and it is stored as  *)
(* retained if its retain flag is set.                                     *)
(***************************************************************************)
C34_DisconnectWithWill ==
    [][\A c \in Conns :
         \A reason \in DisconnectReasons \ {NORMAL_DISCONNECTION} :
             (Ends(c)
              /\ heap[client_session[c]].will_topic # NoTopic
              /\ RecvDisconnect(c, reason)) =>
                 /\ \A sid \in SessionIds :
                        (LiveWithout(c, sid)
                         /\ HasMatching(sid, WillOf(c).topic)) =>
                            CountPacket(written'[heap[sid].client],
                                        WillOf(c)) >= 1
                 /\ WillStored(c)]_vars

\* The connection of a session with a retained will on a/b ended with a
\* DISCONNECT beside a live subscriber of a/b; the subscriber was written
\* nothing and the retained store is empty.
C34_WillDroppedAtDisconnect ==
    \E sid \in SessionIds, k \in Conns :
        /\ heap[sid] # FreeSlot
        /\ heap[sid].client = 0
        /\ heap[sid].will_topic = T_ab
        /\ heap[sid].will_retain
        /\ will_void[sid]
        /\ pc[k] = "connected"
        /\ client_session[k] # sid
        /\ heap[client_session[k]].client = k
        /\ heap[client_session[k]].subscriptions = {T_ab}
        /\ written[k] = <<>>
        /\ retained_messages = <<>>

(***************************************************************************)
(* C35.  The cleanup of a handler that ends never fails: remove_session    *)
(* finds the client id in the registry, the entry it removes is the        *)
(* session the handler was bound to, and a session that another live       *)
(* connection is bound to is neither detached nor removed.                 *)
(***************************************************************************)
C35_CleanupNeverFails ==
    [][\A c \in Conns :
         Ends(c) =>
             /\ pc'[c] # "raised"
             /\ \A id \in env.ids :
                    sessions'[id] # sessions[id] =>
                        sessions[id] = client_session[c]
             /\ \A k \in Conns \ {c} :
                    pc[k] = "connected" =>
                        /\ heap'[client_session[k]].client
                               = heap[client_session[k]].client
                        /\ \A id \in env.ids :
                               sessions[id] = client_session[k] =>
                                   sessions'[id] = sessions[id]]_vars

\* Two connections used one client id; the first to end removed the
\* session of both from the registry, so that the cleanup of the second
\* ended in the KeyError of remove_session.
C35_CleanupRaisedKeyError ==
    \E c, k \in Conns :
        /\ c # k
        /\ pc[c] = "raised"
        /\ pc[k] = "closed"
        /\ sessions["c1"] = 0

\* One client id that publishes on a/b, retained or not, with and without
\* a payload; its CONNECT may carry a retained will without a payload or
\* one whose topic has a wildcard.
EnvStore ==
    [EnvAll EXCEPT !.ids = {"c1"}, !.clean = {FALSE},
                   !.wills = {NoWill,
                              [topic |-> T_ab, message |-> "",
                               retain |-> TRUE],
                              [topic |-> F_aplus, message |-> "x",
                               retain |-> TRUE]},
                   !.mps = {NoProp}, !.expiry = {NoProp},
                   !.auth = {FALSE}, !.cred = {FALSE},
                   !.filters = {T_ab}, !.topics = {T_ab},
                   !.messages = {"", "x"}]

InitStore == InitBroker /\ env = EnvStore

SpecStore == InitStore /\ [][Next]_vars

\* C36: every entry of the retained store has a payload that is not empty
\* and a topic without '+' and '#'.
C36_RetainedWellFormed ==
    \A i \in 1..Len(retained_messages) :
        /\ retained_messages[i][2] # ""
        /\ ~is_wildcards_in_topic(retained_messages[i][1])

\* The retained store holds the will of a connection that ended
\* abnormally: an entry for a/b without a payload, or an entry whose topic
\* is a/+.
C36_RetainedWillMalformed ==
    /\ \E i \in 1..Len(retained_messages) :
           retained_messages[i] = <<T_ab, "">>
    /\ \E i \in 1..Len(retained_messages) :
           retained_messages[i] = <<F_aplus, "x">>

\* One client id; a CONNECT with clean-start may carry MaximumPacketSize
\* and SessionExpiryInterval, a CONNECT that resumes carries neither.
EnvAdopt ==
    [EnvAll EXCEPT !.ids = {"c1"}, !.wills = {NoWill},
                   !.auth = {FALSE}, !.cred = {FALSE},
                   !.filters = {T_ab}, !.topics = {T_ab},
                   !.messages = {"x"}, !.retain = {FALSE}]

\* The packets of a client that connects with the properties and comes
\* back without them.
StepAdopt(c) ==
    \/ Accept(c)
    \/ \E client_id \in env.ids, mps \in env.mps, expiry \in env.expiry :
           RecvConnect(c, client_id, TRUE, NoWill, mps, expiry, FALSE,
                       FALSE)
    \/ \E client_id \in env.ids :
           RecvConnect(c, client_id, FALSE, NoWill, NoProp, NoProp, FALSE,
                       FALSE)
    \/ \E topics \in FilterLists : RecvSubscribe(c, topics)
    \/ \E topic \in env.topics, message \in env.messages :
           RecvPublish(c, topic, message, FALSE)
    \/ RecvPingreq(c)
    \/ RecvDisconnect(c, NORMAL_DISCONNECTION)
    \/ RecvEOF(c)

NextAdopt == Drain \/ \E c \in Conns : StepAdopt(c)

InitAdopt == InitBroker /\ env = EnvAdopt

SpecAdopt == InitAdopt /\ [][NextAdopt]_vars

(***************************************************************************)
(* C37.  After every accepted CONNECT, with or without clean-start, the    *)
(* maximum packet size of the session is the MaximumPacketSize property of *)
(* the CONNECT, 268,435,455 without one, and its expiry interval is the    *)
(* SessionExpiryInterval property, 0 without one.                          *)
(***************************************************************************)
C37_PropertiesAdopted ==
    [][\A c \in Conns :
         \A client_id \in env.ids, clean_start \in env.clean,
            mps \in env.mps, expiry \in env.expiry :
             (pc[c] = "await" /\ pc'[c] = "connected"
              /\ RecvConnect(c, client_id, clean_start, NoWill, mps, expiry,
                             FALSE, FALSE)) =>
                 /\ heap'[client_session'[c]].maximum_packet_size
                        = IF mps = NoProp THEN MAXIMUM_PACKET_SIZE ELSE mps
                 /\ heap'[client_session'[c]].expiry_interval
                        = IF expiry = NoProp THEN 0 ELSE expiry]_vars

\* A CONNECT without properties resumed a session (CONNACK with session
\* present) that still has the expiry interval of its earlier connection.
C37_ExpiryCarriedOver ==
    \E c \in Conns :
        /\ pc[c] = "connected"
        /\ written[c] = <<Connack(TRUE, CONNECT_SUCCESS)>>
        /\ heap[client_session[c]].client = c
        /\ heap[client_session[c]].expiry_interval = 10
        /\ heap[client_session[c]].maximum_packet_size = MAXIMUM_PACKET_SIZE

\* The inputs tried on one connection: calls of subscribe() and of
\* publish() with QoS 0 that take the identifiers round to 1 again, and
\* SUBACK packets.
EnvWrap ==
    [EnvIds EXCEPT !.calls = {"subscribe", "publish_qos_0", "burst"},
                   !.acks = {"SUBACK"}]

NextWrap ==
    \/ ClientStart
    \/ \E maximum \in env.alias_max : ClientConnack(maximum)
    \/ \E s \in Slots : ClientSubscribe(s)
    \/ \E topic \in env.topics : ClientPublishQos0(topic)
    \/ ClientPublishBurst
    \/ \E type \in env.acks, id \in IdWindow, reason \in env.reasons :
           ClientAck(type, id, reason)
    \/ \E s \in Slots : ClientResume(s)
    \/ \E s \in Slots : ClientTimeout(s)

InitWrap == InitState /\ env = EnvWrap /\ unit = NewClient

SpecWrap == InitWrap /\ [][NextWrap]_vars

\* C38: a coroutine that leaves its Transaction block, behind its response
\* or its timeout, takes no entry out of the table but the one of its own
\* Transaction.
C38_ExitRemovesOwnEntry ==
    [][\A s \in Slots :
         (unit.kind = "client" /\ (ClientResume(s) \/ ClientTimeout(s))) =>
             \A id \in IdWindow :
                 (unit.transactions[id] # 0 /\ unit'.transactions[id] = 0)
                     => unit.transactions[id] = s]_vars

\* A call of subscribe() waits for its SUBACK on the one connection there
\* has been, with an identifier the table has no entry for: the entry went
\* with the exit of an earlier call that had the identifier before the
\* identifiers wrapped.
C38_PendingWithoutEntry ==
    /\ unit.kind = "client"
    /\ unit.conn = 1
    /\ \E s \in Slots :
           /\ unit.ops[s].at = "wait"
           /\ unit.ops[s].id = 1
           /\ unit.transactions[1] = 0
           /\ unit.last = Outcome("subscribe", 1, "")

\* The (None, None) entries of the message stream.
Sentinels(u) == {i \in 1..Len(u.messages) : u.messages[i] = "None"}

\* C39: the message stream of a started connection holds at most one
\* (None, None), whichever of the reader task and the keep alive task
\* finds the connection lost, and in whatever order they run.
C39_OneSentinel ==
    unit.kind = "client" => Cardinality(Sentinels(unit)) <= 1

\* The reader task and the keep alive task of one connection have both
\* ended and each has put its (None, None) on the message stream.
C39_TwoSentinels ==
    /\ unit.kind = "client"
    /\ unit.conn = 1
    /\ unit.reader = "done"
    /\ unit.pinger = "done"
    /\ Cardinality(Sentinels(unit)) = 2

(***************************************************************************)
(* Client: the inbound QoS 2 table, _on_publish_qos_2_transactions.  The   *)
(* reader task runs on_publish and on_pubrel, and every accepted PUBLISH   *)
(* starts a task on_publish_qos_2_timer of its own.  The PUBLISH packets   *)
(* of the broker carry different payloads: the n-th accepted one carries   *)
(* message n and starts timer n.                                           *)
(***************************************************************************)

\* Timer tasks per connection and packets read per connection.
MaxTimers == 3
MaxReceived == 5

PUBREC_SUCCESS == 0
PACKET_IDENTIFIER_IN_USE == 145
PUBREL_SUCCESS == 0
PUBREL_PACKET_IDENTIFIER_NOT_FOUND == 146
PUBCOMP_SUCCESS == 0
PUBCOMP_PACKET_IDENTIFIER_NOT_FOUND == 146

ReceiveIds == 1..MaxIds
PubrelReasons == {PUBREL_SUCCESS, PUBREL_PACKET_IDENTIFIER_NOT_FOUND}

\* No entry for a packet identifier in _on_publish_qos_2_transactions.
NoEntry == [task |-> 0, message |-> 0]

\* Client.start() has run: the table is empty and the reader task reads.
NewReceive ==
    [kind |-> "receive",
     table |-> [i \in ReceiveIds |-> NoEntry],
     timers |-> <<>>,
     received |-> <<>>,
     messages |-> <<>>,
     out |-> <<>>]

InitReceive == InitState /\ env = EnvDelivery /\ unit = NewReceive

\* task.cancel(): a task that sleeps ends with CancelledError, which the
\* timer catches; a task that has ended stays as it is.
cancel(timers, t) ==
    IF timers[t].state = "sleeping"
    THEN [timers EXCEPT ![t].state = "cancelled"]
    ELSE timers

\* on_publish with QoS 2 and packet identifier i.
on_publish_qos_2(i) ==
    /\ unit.kind = "receive"
    /\ Len(unit.received) < MaxReceived
    /\ IF unit.table[i] # NoEntry
       THEN /\ unit' = [unit EXCEPT
                   !.received = Append(@, [type |-> "PUBLISH", id |-> i,
                                           message |-> 0]),
                   !.out = Append(@, [type |-> "PUBREC", id |-> i,
                                      reason |-> PACKET_IDENTIFIER_IN_USE])]
       ELSE /\ Len(unit.timers) < MaxTimers
            /\ LET t == Len(unit.timers) + 1
               IN  unit' = [unit EXCEPT
                       !.received = Append(@, [type |-> "PUBLISH", id |-> i,
                                               message |-> t]),
                       !.timers = Append(@, [id |-> i, state |-> "sleeping"]),
                       !.table[i] = [task |-> t, message |-> t],
                       !.out = Append(@, [type |-> "PUBREC", id |-> i,
                                          reason |-> PUBREC_SUCCESS])]
    /\ UNCHANGED Others

\* on_pubrel with packet identifier i.
on_pubrel(i, reason) ==
    /\ unit.kind = "receive"
    /\ Len(unit.received) < MaxReceived
    /\ LET entry == unit.table[i]
           read == Append(unit.received,
                          [type |-> "PUBREL", id |-> i, reason |-> reason])
       IN  IF entry # NoEntry
           THEN IF reason = PUBREL_SUCCESS
                THEN unit' = [unit EXCEPT
                         !.received = read,
                         !.out = Append(@, [type |-> "PUBCOMP", id |-> i,
                                            reason |-> PUBCOMP_SUCCESS]),
                         !.timers = cancel(@, entry.task),
                         !.messages = Append(@, entry.message),
                         !.table[i] = NoEntry]
                ELSE unit' = [unit EXCEPT
                         !.received = read,
                         !.table[i] = NoEntry]
           ELSE unit' = [unit EXCEPT
                    !.received = read,
                    !.out = Append(@, [type |-> "PUBCOMP", id |-> i,
                              reason |-> PUBCOMP_PACKET_IDENTIFIER_NOT_FOUND])]
    /\ UNCHANGED Others

\* on_publish_qos_2_timer of task t after its sleep: del of the entry of its
\* packet identifier, which raises KeyError when there is none.
on_publish_qos_2_timer(t) ==
    /\ unit.kind = "receive"
    /\ t \in 1..Len(unit.timers)
    /\ unit.timers[t].state = "sleeping"
    /\ LET i == unit.timers[t].id
       IN  IF unit.table[i] # NoEntry
           THEN unit' = [unit EXCEPT !.table[i] = NoEntry,
                                     !.timers[t].state = "done"]
           ELSE unit' = [unit EXCEPT !.timers[t].state = "KeyError"]
    /\ UNCHANGED Others

NextReceive ==
    \/ \E i \in ReceiveIds : on_publish_qos_2(i)
    \/ \E i \in ReceiveIds, reason \in PubrelReasons : on_pubrel(i, reason)
    \/ \E t \in 1..MaxTimers : on_publish_qos_2_timer(t)

SpecReceive == InitReceive /\ [][NextReceive]_vars

\* The position in the packets read of the PUBLISH that carried message m.
PublishOf(m) ==
    CHOOSE p \in 1..Len(unit.received) :
        unit.received[p].type = "PUBLISH" /\ unit.received[p].message = m

\* A PUBREL with reason SUCCESS for the identifier of message m was read
\* after its PUBLISH.
Released(m) ==
    \E p \in 1..Len(unit.received) :
        /\ p > PublishOf(m)
        /\ unit.received[p] = [type |-> "PUBREL",
                               id |-> unit.received[PublishOf(m)].id,
                               reason |-> PUBREL_SUCCESS]

\* A timer that fires finds the entry it was started for.
TimerFindsOwnEntry ==
    \A t \in 1..MaxTimers :
        on_publish_qos_2_timer(t) =>
            unit.table[unit.timers[t].id].task = t

\* Every message on the stream is there once, after its PUBREL.
DeliveredOnceAfterPubrel ==
    \A p \in 1..Len(unit.messages) :
        /\ \A q \in 1..Len(unit.messages) :
               unit.messages[q] = unit.messages[p] => q = p
        /\ Released(unit.messages[p])

\* C40: the timer started for an inbound QoS 2 PUBLISH removes only the
\* entry it was started for: under every interleaving of PUBLISH, PUBREL
\* (success or not) and timer expiry it never fires on a missing entry and
\* never removes the entry of a later PUBLISH with the same identifier; and
\* every accepted message is put on the message stream at most once and
\* only after its PUBREL.
C40_TimerRemovesOwnEntry ==
    /\ [][unit.kind = "receive" => TimerFindsOwnEntry]_vars
    /\ [](unit.kind = "receive" => DeliveredOnceAfterPubrel)

\* The timer of an earlier PUBLISH has removed the entry of a later PUBLISH
\* with the same identifier: the later timer still sleeps, no PUBREL was
\* read since, and yet the entry is gone and the message was not delivered.
C40_TimerRemovedLaterEntry ==
    /\ unit.kind = "receive"
    /\ \E t \in 1..Len(unit.timers), s \in 1..Len(unit.timers) :
        /\ t < s
        /\ unit.timers[t].id = unit.timers[s].id
        /\ unit.timers[t].state = "done"
        /\ unit.timers[s].state = "sleeping"
        /\ unit.table[unit.timers[s].id] = NoEntry
        /\ \A p \in 1..Len(unit.received) :
               p > PublishOf(s) => unit.received[p].id # unit.timers[s].id
        /\ \A p \in 1..Len(unit.messages) : unit.messages[p] # s

====
